---- MODULE Spec2Model ----
(***************************************************************************)
(* A model of the file_spec package: the FileSpecification configuration   *)
(* object (construction, validated attribute assignment, is_active) and    *)
(* the readers' load pipelines (ExceFileReader, FWFFileReader).            *)
(*                                                                         *)
(* Python values are tagged records [t |-> <type>, v |-> <payload>].       *)
(* A datetime is the tuple <<year, month, day>>; a str that is parsed as a *)
(* date and a bytes value are sequences of character codes; a str that is  *)
(* only used as a name (a column, an attribute, a reader) is a TLA+        *)
(* string.                                                                 *)
(***************************************************************************)
EXTENDS Integers, Sequences, FiniteSets, TLC

\* ------------------------------------------------------------------ bounds
\* Number of distinct calendar days (January 2018) used as ENABLED bounds
\* and as is_active arguments.
MaxDay == 2
\* Number of distinct calendar days a file's date columns and a DateFilter
\* take their values from.
MaxFileDay == 2
\* Rows of a file in the effective-date and the latest-revision inputs.
MaxRows == 2
\* Rows of a file in the period inputs.
MaxPeriodRows == 2
\* Number of specifications a registry holds at most.
MaxSpecs == 3
\* Number of loads of one reader, and of close() calls on one handle.
MaxLoads == 3
MaxCloses == 2
\* Number of field descriptors a legacy specification declares at most.
MaxFields == 4

\* ------------------------------------------------------- Python values
PyNone == [t |-> "None"]
PyBool(b) == [t |-> "bool", v |-> b]
PyInt(n) == [t |-> "int", v |-> n]
PyStr(s) == [t |-> "str", v |-> s]
PyDt(d) == [t |-> "datetime", v |-> d]
PyTuple(s) == [t |-> "tuple", v |-> s]
PyList(s) == [t |-> "list", v |-> s]
\* The outcome of a call that raised: the exception's type.
Raised(e) == [t |-> "raise", v |-> e]

IsNone(x) == x.t = "None"
IsRaised(x) == x.t = "raise"

\* Character codes: the bytes the readers compare (" ", "-", "0") and the
\* characters of file names and file patterns.
Ch == [sp |-> 32, dash |-> 45, zero |-> 48, lpar |-> 40, rpar |-> 41, star |-> 42,
       dot |-> 46,
       slash |-> 47, bslash |-> 92, a |-> 97, d |-> 100, t |-> 116, x |-> 120]
SP == Ch.sp
DASH == Ch.dash
ZERO == Ch.zero

\* ------------------------------------------------------------ calendar
IsLeap(y) == (y % 4 = 0 /\ y % 100 # 0) \/ y % 400 = 0

DaysInMonth(y, m) ==
    IF m = 2 THEN (IF IsLeap(y) THEN 29 ELSE 28)
    ELSE IF m \in {4, 6, 9, 11} THEN 30 ELSE 31

\* datetime(year, month, day): the value, or ValueError.
MkDatetime(y, m, d) ==
    IF y >= 1 /\ y <= 9999 /\ m >= 1 /\ m <= 12 /\ d >= 1 /\ d <= DaysInMonth(y, m)
    THEN PyDt(<<y, m, d>>)
    ELSE Raised("ValueError")

\* A datetime payload is <<year, month, day>> for midnight and
\* <<year, month, day, hour, minute, second>> for any other time of day.
TimePart(a, i) == IF i <= Len(a) THEN a[i] ELSE 0

\* The seconds since midnight.
SecondOfDay(a) == IF Len(a) = 3 THEN 0 ELSE a[4] * 3600 + a[5] * 60 + a[6]

\* datetime.__lt__ / __le__ on two datetime payloads.
DtLT(a, b) ==
    \/ a[1] < b[1]
    \/ a[1] = b[1] /\ a[2] < b[2]
    \/ a[1] = b[1] /\ a[2] = b[2] /\ a[3] < b[3]
    \/ a[1] = b[1] /\ a[2] = b[2] /\ a[3] = b[3] /\ SecondOfDay(a) < SecondOfDay(b)

DtLE(a, b) == a = b \/ DtLT(a, b)

\* str.replace("-", "") on a sequence of character codes.
StripDash(s) == SelectSeq(s, LAMBDA c : c # DASH)

IsDigit(c) == c >= ZERO /\ c <= ZERO + 9

\* The number the digits s[i..j] spell.
RECURSIVE DigitsVal(_, _, _)
DigitsVal(s, i, j) ==
    IF j < i THEN 0 ELSE DigitsVal(s, i, j - 1) * 10 + (s[j] - ZERO)

\* datetime(year, month, day, hour, minute, second)
MkDatetimeAt(y, m, d, hh, mm, ss) ==
    IF IsRaised(MkDatetime(y, m, d)) \/ hh > 23 \/ mm > 59 \/ ss > 59
    THEN Raised("ValueError")
    ELSE IF hh = 0 /\ mm = 0 /\ ss = 0 THEN PyDt(<<y, m, d>>)
    ELSE PyDt(<<y, m, d, hh, mm, ss>>)

\* The directives %m and %d of strptime match two characters or one, the
\* two-character alternatives first: the n characters of s from i on are
\* a month (1[0-2]|0[1-9]|[1-9]), a day (3[0-1]|[1-2]\d|0[1-9]|[1-9]| [1-9]).
AllDigits(s, i, j) == j <= Len(s) /\ \A k \in i..j : IsDigit(s[k])

MonthAt(s, i, n) ==
    /\ AllDigits(s, i, i + n - 1)
    /\ DigitsVal(s, i, i + n - 1) \in 1..12

DayAt(s, i, n) ==
    \/ /\ AllDigits(s, i, i + n - 1)
       /\ DigitsVal(s, i, i + n - 1) \in 1..31
    \/ /\ n = 2 /\ i + 1 <= Len(s) /\ s[i] = SP
       /\ IsDigit(s[i + 1]) /\ s[i + 1] # ZERO

\* int() of the characters a day directive matched.
DayVal(s, i, n) ==
    IF s[i] = SP THEN DigitsVal(s, i + 1, i + 1) ELSE DigitsVal(s, i, i + n - 1)

\* The regular expression of "%Y%m%d" matches s with a month of mw and a
\* day of dw characters.
FitsDate(s, mw, dw) == MonthAt(s, 5, mw) /\ DayAt(s, 5 + mw, dw)

\* strptime once the expression matched with these widths: characters
\* left over after the day are an error.
ParsedDate(s, mw, dw) ==
    IF 4 + mw + dw # Len(s) THEN Raised("ValueError")
    ELSE MkDatetime(DigitsVal(s, 1, 4), DigitsVal(s, 5, 4 + mw), DayVal(s, 5 + mw, dw))

\* strptime(s, "%Y%m%d"): the regular expression takes the first widths
\* of month and day that match, two characters before one.
StrptimeDate(s) ==
    IF ~AllDigits(s, 1, 4) THEN Raised("ValueError")
    ELSE IF FitsDate(s, 2, 2) THEN ParsedDate(s, 2, 2)
    ELSE IF FitsDate(s, 2, 1) THEN ParsedDate(s, 2, 1)
    ELSE IF FitsDate(s, 1, 2) THEN ParsedDate(s, 1, 2)
    ELSE IF FitsDate(s, 1, 1) THEN ParsedDate(s, 1, 1)
    ELSE Raised("ValueError")

\* strptime(s, "%Y%m%d%H%M%S") for a string of fourteen characters: every
\* field takes two digits, hour 00-23, minute 00-59, second 00-61, and
\* datetime() refuses a second above 59.
StrptimeDateTime(s) ==
    IF /\ AllDigits(s, 1, 6) /\ AllDigits(s, 9, 14)
       /\ MonthAt(s, 5, 2) /\ DayAt(s, 7, 2)
       /\ DigitsVal(s, 9, 10) <= 23 /\ DigitsVal(s, 11, 12) <= 59
       /\ DigitsVal(s, 13, 14) <= 61
    THEN MkDatetimeAt(DigitsVal(s, 1, 4), DigitsVal(s, 5, 6), DayVal(s, 7, 2),
                      DigitsVal(s, 9, 10), DigitsVal(s, 11, 12), DigitsVal(s, 13, 14))
    ELSE Raised("ValueError")

\* A conversion that reads fourteen digits as a date and drops the rest.
StrptimeDropsTime(s) ==
    IF Len(s) = 14 THEN StrptimeDate(SubSeq(s, 1, 8)) ELSE StrptimeDate(s)

\* to_date's conversion of a str without dashes: fourteen characters are
\* parsed with "%Y%m%d%H%M%S", any other length with "%Y%m%d".
Strptime(s) == IF Len(s) = 14 THEN StrptimeDateTime(s) ELSE StrptimeDate(s)

\* The except clause of to_date: whatever the conversion raised is raised
\* again as FileSpecificationException.
ToDateResult(value) ==
    IF IsRaised(value) THEN Raised("FileSpecificationException") ELSE value

\* to_date(date): a datetime is returned as it is, a str loses its dashes
\* and is parsed, an int is split by divmod.
to_date(date) ==
    IF date.t = "datetime" THEN date
    ELSE IF date.t = "str" THEN ToDateResult(Strptime(StripDash(date.v)))
    ELSE IF date.t \in {"int", "bool"} THEN
        LET n == IF date.t = "bool" THEN (IF date.v THEN 1 ELSE 0) ELSE date.v
        IN ToDateResult(MkDatetime((n \div 100) \div 100, (n \div 100) % 100, n % 100))
    ELSE Raised("FileSpecificationException")

\* "%Y%m%d" rendered as character codes: datetime.strftime(...).encode().
RECURSIVE Digits(_, _)
Digits(n, width) ==
    IF width = 0 THEN <<>> ELSE Append(Digits(n \div 10, width - 1), ZERO + (n % 10))

Strftime(d) == Digits(d[1], 4) \o Digits(d[2], 2) \o Digits(d[3], 2)

\* The dashed form "YYYY-MM-DD" of a day, as the tests write it.
Dashed(d) == Digits(d[1], 4) \o <<DASH>> \o Digits(d[2], 2) \o <<DASH>> \o Digits(d[3], 2)

\* The int form YYYYMMDD of a day.
AsInt(d) == d[1] * 10000 + d[2] * 100 + d[3]


\* ------------------------------------------------- FileSpecification
\* A Period object. Period defines no __eq__, so two Period objects are
\* equal only when they are the same object: oid names the object a caller
\* holds, and 0 marks an object that a validator has just created.
PyPeriod(from, to, inclusive, oid) ==
    [t |-> "Period",
     v |-> [field_from |-> from, field_to |-> to, inclusive |-> inclusive, oid |-> oid]]

\* Period.__init__: the assertions on the three arguments.
NewPeriod(from, to, inclusive) ==
    IF /\ from.t \in {"None", "str"}
       /\ to.t \in {"None", "str"}
       /\ (from.t = "str" => from.v # "")
       /\ (to.t = "str" => to.v # "")
       /\ inclusive.t = "bool"
    THEN PyPeriod(from, to, inclusive.v, 0)
    ELSE Raised("AssertionError")

\* Python's == on the values of the model.
PyEq(a, b) ==
    IF a.t = "Period" \/ b.t = "Period"
    THEN a.t = b.t /\ a.v.oid = b.v.oid /\ a.v.oid # 0
    ELSE IF a.t \in {"bool", "int"} /\ b.t \in {"bool", "int"}
    THEN (IF a.t = "bool" THEN (IF a.v THEN 1 ELSE 0) ELSE a.v)
         = (IF b.t = "bool" THEN (IF b.v THEN 1 ELSE 0) ELSE b.v)
    ELSE a.t = b.t /\ a = b

\* The configuration attributes FileSpecification declares, each with its
\* validate_<NAME> method, in the order dir() lists them.
BaseOrder ==
    <<"COMMENTS", "DATE_FROM_FILENAME_REGEX", "EFFECTIVE_DATE_FIELD", "ENABLED",
      "ENCODING", "FIELDSPECS", "FILE_PATTERN", "FULL_FILES", "INDEX_COL",
      "MY_CFG", "NEWLINE", "PERIOD_DATE_FIELDS", "READER", "READ_EXCEL_ARGS",
      "SKIP_ROWS", "XYZ">>

BaseAttrs ==
    {"COMMENTS", "DATE_FROM_FILENAME_REGEX", "EFFECTIVE_DATE_FIELD", "ENABLED",
     "ENCODING", "FIELDSPECS", "FILE_PATTERN", "FULL_FILES", "INDEX_COL",
     "NEWLINE", "PERIOD_DATE_FIELDS", "READER", "READ_EXCEL_ARGS", "SKIP_ROWS"}

\* The class default of DATE_FROM_FILENAME_REGEX, r"\.(\d{8,14})\.".
DateRegex == PyStr("dot-8-to-14-digits-dot")

\* The class-level defaults of FileSpecification. The attributes the model
\* never assigns keep an opaque default that their validators accept.
Opaque == [t |-> "default"]

BaseDefaults ==
    [n \in BaseAttrs |->
        CASE n = "ENABLED" -> PyBool(TRUE)
          [] n = "SKIP_ROWS" -> PyInt(0)
          [] n \in {"FIELDSPECS", "FILE_PATTERN", "FULL_FILES", "INDEX_COL",
                    "EFFECTIVE_DATE_FIELD", "PERIOD_DATE_FIELDS", "READER"} -> PyNone
          [] n = "DATE_FROM_FILENAME_REGEX" -> DateRegex
          [] OTHER -> Opaque]

\* Patterns as callers write them: "*.dat", "*.txt", "d/**/*.dat", "t*(a".
DatGlob == <<Ch.star, Ch.dot, Ch.d, Ch.a, Ch.t>>
TxtGlob == <<Ch.star, Ch.dot, Ch.t, Ch.x, Ch.t>>
DirGlob == <<Ch.d, Ch.slash, Ch.star, Ch.star, Ch.slash>> \o DatGlob
OpenParen == <<Ch.t, Ch.star, Ch.lpar, Ch.a>>
\* "a*.txt", "a*.dat": globs that are regular expressions as they stand.
ATxt == <<Ch.a, Ch.star, Ch.dot, Ch.t, Ch.x, Ch.t>>
ADat == <<Ch.a, Ch.star, Ch.dot, Ch.d, Ch.a, Ch.t>>

\* re.compile of a pattern: the patterns of the model that are no regex.
BadPatterns == {OpenParen}

validate_ENABLED(data) ==
    IF data.t = "bool" THEN data
    ELSE IF data.t \in {"list", "tuple"} /\ Len(data.v) = 2 THEN
        LET conv == [i \in 1..2 |-> IF IsNone(data.v[i]) THEN PyNone ELSE to_date(data.v[i])]
        IN IF \E i \in 1..2 : IsRaised(conv[i])
           THEN Raised("FileSpecificationException")
           ELSE PyTuple(conv)
    ELSE Raised("FileSpecificationException")

validate_FIELDSPECS(data) ==
    IF data.t = "list" /\ \A i \in 1..Len(data.v) : data.v[i].t = "dict"
    THEN data
    ELSE Raised("FileSpecificationException")

validate_FILE_PATTERN(data) ==
    IF data.t = "str" THEN PyTuple(<<data>>)
    ELSE IF data.t \in {"list", "tuple"} THEN
        (IF \A i \in 1..Len(data.v) : data.v[i].t = "str"
         THEN (IF \E i \in 1..Len(data.v) : data.v[i].v \in BadPatterns
               THEN Raised("re.error")
               ELSE PyTuple(data.v))
         ELSE Raised("FileSpecificationException"))
    ELSE Raised("FileSpecificationException")

\* re.compile(pat) of a pattern as written raises: a "(" that is never
\* closed, or a "*" with nothing to repeat (at the start, after "(" or
\* after another "*").
RawCompileFails(pat) ==
    \/ Cardinality({i \in 1..Len(pat) : pat[i] = Ch.lpar})
          # Cardinality({i \in 1..Len(pat) : pat[i] = Ch.rpar})
    \/ \E i \in 1..Len(pat) :
          pat[i] = Ch.star /\ (IF i = 1 THEN TRUE ELSE pat[i - 1] \in {Ch.star, Ch.lpar})

\* validate_FULL_FILES: None and a single string are returned unchecked;
\* the entries of a list or tuple are compiled as they are written, not
\* translated from glob.
validate_FULL_FILES(data) ==
    IF IsNone(data) THEN PyNone
    ELSE IF data.t = "str" THEN PyTuple(<<data>>)
    ELSE IF data.t \in {"list", "tuple"} THEN
        (IF \A i \in 1..Len(data.v) : data.v[i].t = "str"
         THEN (IF \E i \in 1..Len(data.v) : RawCompileFails(data.v[i].v)
               THEN Raised("re.error")
               ELSE PyTuple(data.v))
         ELSE Raised("FileSpecificationException"))
    ELSE Raised("FileSpecificationException")

validate_SKIP_ROWS(data) ==
    IF IsNone(data) THEN PyInt(0)
    ELSE IF data.t \in {"int", "bool"} THEN data
    ELSE Raised("FileSpecificationException")

validate_INDEX_COL(data) ==
    IF data.t \in {"None", "str", "int", "bool", "list", "tuple"} THEN data
    ELSE Raised("FileSpecificationException")

validate_EFFECTIVE_DATE_FIELD(data) ==
    IF data.t \in {"None", "str"} THEN data
    ELSE Raised("FileSpecificationException")

validate_PERIOD_DATE_FIELDS(data) ==
    IF data.t \in {"None", "Period"} THEN data
    ELSE IF data.t \in {"tuple", "list"} /\ Len(data.v) \in {2, 3} THEN
        IF data.v[1].t = "str" /\ data.v[2].t = "str"
        THEN (IF Len(data.v) = 2 THEN Raised("IndexError")
              ELSE IF data.v[3].t = "bool"
                   THEN NewPeriod(data.v[1], data.v[2], data.v[3])
                   ELSE Raised("FileSpecificationException"))
        ELSE Raised("FileSpecificationException")
    ELSE Raised("FileSpecificationException")

\* (re.compile accepts every regex of the model.)
validate_DATE_FROM_FILENAME_REGEX(data) ==
    IF data.t \in {"None", "str"} THEN data
    ELSE Raised("FileSpecificationException")

validate_READER(data) == data

\* validate_<name>(data): the normalized value, or what the method raised.
Validate(name, data) ==
    CASE name = "ENABLED" -> validate_ENABLED(data)
      [] name = "FIELDSPECS" -> validate_FIELDSPECS(data)
      [] name = "FILE_PATTERN" -> validate_FILE_PATTERN(data)
      [] name = "FULL_FILES" -> validate_FULL_FILES(data)
      [] name = "SKIP_ROWS" -> validate_SKIP_ROWS(data)
      [] name = "INDEX_COL" -> validate_INDEX_COL(data)
      [] name = "EFFECTIVE_DATE_FIELD" -> validate_EFFECTIVE_DATE_FIELD(data)
      [] name = "PERIOD_DATE_FIELDS" -> validate_PERIOD_DATE_FIELDS(data)
      [] name = "DATE_FROM_FILENAME_REGEX" -> validate_DATE_FROM_FILENAME_REGEX(data)
      [] OTHER -> validate_READER(data)

\* A class: the upper-case attributes it declares, the names it has a
\* validate_<NAME> method for, and the class-level values.
MkClass(attrs, validators, values) ==
    [attrs |-> attrs, validators |-> validators, values |-> values]

\* An instance __dict__ with no configuration attribute in it.
EmptyInst == [n \in {} |-> PyNone]

\* getattr(self, name): the instance attribute, else the class attribute.
GetAttr(c, inst, name) ==
    IF name \in DOMAIN inst THEN inst[name]
    ELSE IF name \in c.attrs THEN c.values[name]
    ELSE Raised("AttributeError")

\* An instance __dict__ that holds the assigned attribute only.
StoreAlone(inst, name, value) == [n \in {name} |-> value]

\* object.__setattr__(self, name, value)
Store(inst, name, value) ==
    [n \in DOMAIN inst \cup {name} |-> IF n = name THEN value ELSE inst[n]]

\* A field dict of FIELDSPECS.
Field(name, len) == [t |-> "dict", v |-> [name |-> name, len |-> len]]

\* new_filespec(): the field table for READER, built from FIELDSPECS. The
\* table constructors belong to fwf_db; the model keeps the kind of table
\* and the column names in declaration order. "name" is mandatory in a
\* descriptor (validate_FIELDSPECS does not ask for it): the constructor
\* raises for a descriptor without one, which the model writes as name "".
new_filespec(c, inst) ==
    LET fs == GetAttr(c, inst, "FIELDSPECS")
        reader == GetAttr(c, inst, "READER")
    IN IF IsNone(fs) THEN Raised("AssertionError")
       ELSE IF fs.t # "list" THEN Raised("TypeError")
       ELSE IF \E i \in 1..Len(fs.v) : fs.v[i].t = "dict" /\ fs.v[i].v.name = ""
       THEN Raised("KeyError")
       ELSE [t |-> "fields",
             v |-> [kind |-> IF reader = PyStr("fwf") THEN "fwf" ELSE "generic",
                    columns |-> [i \in 1..Len(fs.v) |-> fs.v[i].v.name]]]

\* The body of validate()'s loop for the upper-case name at position i of
\* dir(self), whose current value is cur and whose validator returns norm:
\* the name needs its validate_ method, and setattr(self, name, cur) stores
\* the normalized value unless it equals cur.
RECURSIVE ValidateFrom(_, _, _)
ValidateName(c, inst, i, cur, norm) ==
    IF BaseOrder[i] \notin c.attrs \cup DOMAIN inst THEN ValidateFrom(c, inst, i + 1)
    ELSE IF BaseOrder[i] \notin c.validators \/ IsRaised(norm)
    THEN [inst |-> inst, exc |-> "FileSpecificationException"]
    ELSE IF PyEq(norm, cur) THEN ValidateFrom(c, inst, i + 1)
    ELSE ValidateFrom(c, Store(inst, BaseOrder[i], norm), i + 1)

\* validate(), the upper-case names of dir(self) from position i on.
\* (validate_FIELDSPECS returns its argument, so the FIELDSPECS step finds
\* value == cur_value and never re-enters init().)
ValidateFrom(c, inst, i) ==
    IF i > Len(BaseOrder) THEN [inst |-> inst, exc |-> ""]
    ELSE ValidateName(c, inst, i, GetAttr(c, inst, BaseOrder[i]),
                      Validate(BaseOrder[i], GetAttr(c, inst, BaseOrder[i])))

\* validate(), the validate_ methods, which dir(self) lists after the
\* upper-case names: the attribute of each must exist.
ValidateMethods(c, r) ==
    IF r.exc = "" /\ \E n \in c.validators : n \notin c.attrs \cup DOMAIN r.inst
    THEN [inst |-> r.inst, exc |-> "FileSpecificationException"]
    ELSE r

\* validate(): the loop over dir(self).
validate(c, inst) == ValidateMethods(c, ValidateFrom(c, inst, 1))

\* One turn of validate()'s loop, for the upper-case name at position i of
\* dir(self): whether the name is an attribute at all (seen), the
\* instance it leaves and the exception it raised.
validate_step(c, inst, i, cur, norm) ==
    IF BaseOrder[i] \notin c.attrs \cup DOMAIN inst
    THEN [seen |-> FALSE, inst |-> inst, exc |-> ""]
    ELSE IF BaseOrder[i] \notin c.validators \/ IsRaised(norm)
    THEN [seen |-> TRUE, inst |-> inst, exc |-> "FileSpecificationException"]
    ELSE [seen |-> TRUE, exc |-> "",
          inst |-> IF PyEq(norm, cur) THEN inst ELSE Store(inst, BaseOrder[i], norm)]

\* init() that leaves self.fields as it was.
InitKeepsFields(inst, fields, tab, r) ==
    IF IsRaised(tab) THEN [inst |-> inst, fields |-> fields, exc |-> tab.v]
    ELSE [inst |-> r.inst, fields |-> fields, exc |-> r.exc]

\* init(), given what new_filespec() returned or raised (tab) and how
\* validate() ended (r).
InitResult(inst, fields, tab, r) ==
    IF IsRaised(tab) THEN [inst |-> inst, fields |-> fields, exc |-> tab.v]
    ELSE [inst |-> r.inst, fields |-> tab, exc |-> r.exc]

\* init(): self.fields = self.new_filespec(); self.validate()
init(c, inst, fields) ==
    InitResult(inst, fields, new_filespec(c, inst), validate(c, inst))

\* The end of __setattr__ for FIELDSPECS: the value is stored and init()
\* has run and ended as r.
Reinitialized(norm, r) ==
    [inst |-> r.inst, fields |-> r.fields, derived |-> TRUE, exc |-> r.exc, norm |-> norm]

\* __setattr__ that does not read the attribute first: a value the
\* validator returns is stored under any name.
SetattrNoLookup(c, inst, fields, name, cur, norm) ==
    IF IsRaised(norm)
    THEN [inst |-> inst, fields |-> fields, derived |-> FALSE,
          exc |-> "FileSpecificationException", norm |-> norm]
    ELSE [inst |-> Store(inst, name, norm), fields |-> fields, derived |-> FALSE,
          exc |-> "", norm |-> norm]

\* __setattr__ without its test value == cur_value: every accepted value is
\* stored, and FIELDSPECS runs init() again.
SetattrAlwaysStores(c, inst, fields, name, cur, norm) ==
    IF IsRaised(cur) \/ name \notin c.validators
    THEN [inst |-> inst, fields |-> fields, derived |-> FALSE,
          exc |-> "AttributeError", norm |-> PyNone]
    ELSE IF IsRaised(norm)
    THEN [inst |-> inst, fields |-> fields, derived |-> FALSE,
          exc |-> "FileSpecificationException", norm |-> norm]
    ELSE IF name = "FIELDSPECS"
    THEN Reinitialized(norm, init(c, Store(inst, name, norm), fields))
    ELSE [inst |-> Store(inst, name, norm), fields |-> fields, derived |-> FALSE,
          exc |-> "", norm |-> norm]

\* __setattr__ once getattr(self, name) gave cur and the validator norm.
SetattrResult(c, inst, fields, name, cur, norm) ==
    IF IsRaised(cur) \/ name \notin c.validators
    THEN [inst |-> inst, fields |-> fields, derived |-> FALSE,
          exc |-> "AttributeError", norm |-> PyNone]
    ELSE IF IsRaised(norm)
    THEN [inst |-> inst, fields |-> fields, derived |-> FALSE,
          exc |-> "FileSpecificationException", norm |-> norm]
    ELSE IF PyEq(norm, cur)
    THEN [inst |-> inst, fields |-> fields, derived |-> FALSE, exc |-> "", norm |-> norm]
    ELSE IF name = "FIELDSPECS"
    THEN Reinitialized(norm, init(c, Store(inst, name, norm), fields))
    ELSE [inst |-> Store(inst, name, norm), fields |-> fields, derived |-> FALSE,
          exc |-> "", norm |-> norm]

\* __setattr__ storing the value before its validator has seen it.
SetattrStoresFirst(c, inst, fields, name, value) ==
    [inst |-> Store(inst, name, value), fields |-> fields, derived |-> FALSE,
     exc |-> IF IsRaised(Validate(name, value)) THEN "FileSpecificationException" ELSE "",
     norm |-> Validate(name, value)]

\* __setattr__(self, name, value) for an upper-case name: the instance and
\* the field table it leaves, the exception it raised (exc), the validator's
\* result (norm) and whether init() was called (derived).
py_setattr(c, inst, fields, name, value) ==
    SetattrResult(c, inst, fields, name, GetAttr(c, inst, name), Validate(name, value))

\* is_active once ENABLED was read: the bounds go through to_date again.
ActiveIn(enabled, effective_date, afrom, bto) ==
    IF ~IsNone(afrom) /\ DtLT(effective_date.v, afrom.v) THEN FALSE
    ELSE IF ~IsNone(bto) /\ ~DtLT(effective_date.v, bto.v) THEN FALSE
    ELSE TRUE

\* is_active with an inclusive upper bound.
IsActiveUpToBound(enabled, effective_date) ==
    IF enabled.t = "bool" THEN enabled.v
    ELSE IF IsNone(effective_date) THEN TRUE
    ELSE /\ IsNone(enabled.v[1]) \/ DtLE(enabled.v[1].v, effective_date.v)
         /\ IsNone(enabled.v[2]) \/ DtLE(effective_date.v, enabled.v[2].v)

\* is_active testing the date before it looks at a boolean ENABLED.
IsActiveDateFirst(enabled, effective_date) ==
    IF IsNone(effective_date) THEN TRUE
    ELSE IF enabled.t = "bool" THEN enabled.v
    ELSE ActiveIn(enabled, effective_date,
                  IF IsNone(enabled.v[1]) THEN PyNone ELSE to_date(enabled.v[1]),
                  IF IsNone(enabled.v[2]) THEN PyNone ELSE to_date(enabled.v[2]))

\* is_active(effective_date)
is_active(enabled, effective_date) ==
    IF enabled.t = "bool" THEN enabled.v
    ELSE IF IsNone(effective_date) THEN TRUE
    ELSE ActiveIn(enabled, effective_date,
                  IF IsNone(enabled.v[1]) THEN PyNone ELSE to_date(enabled.v[1]),
                  IF IsNone(enabled.v[2]) THEN PyNone ELSE to_date(enabled.v[2]))

\* ------------------------------------------------------- eligibility
\* A file name and a pattern are sequences of character codes. A compiled
\* pattern is a sequence of tokens: a literal character, ".*" (any), and
\* "(/.*)?/" (dirs).
Lit(c) == [k |-> "lit", c |-> c]
AnyChars == [k |-> "any", c |-> 0]
Dirs == [k |-> "dirs", c |-> 0]

\* The third replace of _glob_to_regex, left to right from token i on:
\* "/.*.*/" becomes "(/.*)?/".
RECURSIVE ReplaceDirs(_, _)
ReplaceDirs(toks, i) ==
    IF i > Len(toks) THEN <<>>
    ELSE IF /\ i + 3 <= Len(toks)
            /\ toks[i] = Lit(Ch.slash) /\ toks[i + 1] = AnyChars
            /\ toks[i + 2] = AnyChars /\ toks[i + 3] = Lit(Ch.slash)
    THEN <<Dirs>> \o ReplaceDirs(toks, i + 4)
    ELSE <<toks[i]>> \o ReplaceDirs(toks, i + 1)

\* _glob_to_regex(pattern): "." is taken literally, "*" becomes ".*"; the
\* prefix "(^|/)" is the set of places where search may start (StartsAt).
glob_to_regex(pattern) ==
    ReplaceDirs([i \in 1..Len(pattern) |->
                    IF pattern[i] = Ch.star THEN AnyChars ELSE Lit(pattern[i])], 1)

\* The regex tokens from i on match some characters of file from j on.
RECURSIVE MatchFrom(_, _, _, _)
MatchFrom(regex, i, file, j) ==
    IF i > Len(regex) THEN TRUE
    ELSE IF regex[i].k = "lit"
    THEN j <= Len(file) /\ file[j] = regex[i].c /\ MatchFrom(regex, i + 1, file, j + 1)
    ELSE IF regex[i].k = "any"
    THEN \E k \in j..(Len(file) + 1) : MatchFrom(regex, i + 1, file, k)
    ELSE /\ j <= Len(file) /\ file[j] = Ch.slash
         /\ \/ MatchFrom(regex, i + 1, file, j + 1)
            \/ \E k \in (j + 1)..Len(file) :
                  file[k] = Ch.slash /\ MatchFrom(regex, i + 1, file, k + 1)

\* "(^|/)": the start of the name, or the place after a "/".
StartsAt(file, j) == j = 1 \/ file[j - 1] = Ch.slash

\* pat.search(file) is not None
Search(regex, file) ==
    \E j \in 1..(Len(file) + 1) : StartsAt(file, j) /\ MatchFrom(regex, 1, file, j)

\* _fnmatch(file, pattern) for a pattern whose translation compiles:
\* backslashes become "/", the pattern is translated and searched for.
fnmatch(file, pattern) ==
    Search(glob_to_regex(pattern),
           [i \in 1..Len(file) |-> IF file[i] = Ch.bslash THEN Ch.slash ELSE file[i]])

\* _fnmatch_multiple(file, pattern)
fnmatch_multiple(file, pattern) ==
    IF pattern.t = "str" THEN fnmatch(file, pattern.v)
    ELSE \E i \in 1..Len(pattern.v) : fnmatch(file, pattern.v[i].v)

\* _fnmatch_multiple(file, pattern) with the exception _fnmatch raises for
\* a pattern whose translation does not compile: any() stops at the first
\* entry that matches or raises.
fnmatch_outcome(file, pattern) ==
    LET pats == IF pattern.t = "str" THEN <<pattern>> ELSE pattern.v
        stop == {i \in 1..Len(pats) : pats[i].v \in BadPatterns \/ fnmatch(file, pats[i].v)}
    IN IF stop = {} THEN PyBool(FALSE)
       ELSE IF pats[CHOOSE i \in stop : \A j \in stop : i <= j].v \in BadPatterns
       THEN Raised("FileSpecificationException")
       ELSE PyBool(TRUE)

\* The number of digits file holds from position i on.
RECURSIVE DigitRun(_, _)
DigitRun(file, i) ==
    IF i > Len(file) \/ ~IsDigit(file[i]) THEN 0 ELSE 1 + DigitRun(file, i + 1)

\* re.search(r"\.(\d{8,14})\.", file) matches at position i: a ".", eight
\* to fourteen digits and a "." (the digits of a longer run cannot match,
\* none of them being followed by the ".").
TokenAt(file, i) ==
    /\ file[i] = Ch.dot
    /\ DigitRun(file, i + 1) \in 8..14
    /\ i + DigitRun(file, i + 1) + 1 <= Len(file)
    /\ file[i + DigitRun(file, i + 1) + 1] = Ch.dot

\* extract_datetime_from_filename(file, regex): group 1 of the first
\* match, or FileSpecificationException when there is none.
extract_datetime_from_filename(file, regex) ==
    IF \E i \in 1..Len(file) : TokenAt(file, i)
    THEN LET i == CHOOSE i \in 1..Len(file) :
                     TokenAt(file, i) /\ \A j \in 1..(i - 1) : ~TokenAt(file, j)
         IN PyStr(SubSeq(file, i + 1, i + DigitRun(file, i + 1)))
    ELSE Raised("FileSpecificationException")

\* datetime_from_filename(file, regex), given what the extraction returned
\* or raised.
DatetimeOf(token) == IF IsRaised(token) THEN token ELSE to_date(token)

datetime_from_filename(file, regex) ==
    DatetimeOf(extract_datetime_from_filename(file, regex))

\* The last line of file_filter, file_date being what
\* datetime_from_filename returned or raised.
NotAfter(file_date, effective_date) ==
    IF IsRaised(file_date) THEN file_date
    ELSE PyBool(IsNone(file_date) \/ DtLE(file_date.v, effective_date.v))

\* file_filter(file, effective_date), regex being DATE_FROM_FILENAME_REGEX:
\* a boolean, or the exception raised.
file_filter(regex, file, effective_date) ==
    IF IsNone(effective_date) THEN PyBool(TRUE)
    ELSE IF IsNone(regex) THEN PyBool(TRUE)
    ELSE NotAfter(datetime_from_filename(file, regex), effective_date)

\* is_eligible that does not ask file_filter.
EligibleByNameOnly(enabled, pattern, regex, file, effective_date) ==
    IF ~is_active(enabled, effective_date) THEN PyBool(FALSE)
    ELSE IF IsNone(pattern) THEN Raised("AssertionError")
    ELSE PyBool(fnmatch_multiple(file, pattern))

\* is_eligible(file, effective_date) of a specification with these
\* ENABLED, FILE_PATTERN and DATE_FROM_FILENAME_REGEX: a boolean, or the
\* exception raised.
is_eligible(enabled, pattern, regex, file, effective_date) ==
    IF ~is_active(enabled, effective_date) THEN PyBool(FALSE)
    ELSE IF IsNone(pattern) THEN Raised("AssertionError")
    ELSE IF IsRaised(fnmatch_outcome(file, pattern)) THEN fnmatch_outcome(file, pattern)
    ELSE IF ~fnmatch_multiple(file, pattern) THEN PyBool(FALSE)
    ELSE file_filter(regex, file, effective_date)

\* is_full that asks every entry to match.
IsFullAllEntries(full_files, file) ==
    IF IsNone(full_files) THEN PyBool(FALSE)
    ELSE PyBool(\A i \in 1..Len(full_files.v) : fnmatch(file, full_files.v[i].v))

\* is_full(file) of a specification with this FULL_FILES.
is_full(full_files, file) ==
    IF IsNone(full_files) THEN PyBool(FALSE)
    ELSE fnmatch_outcome(file, full_files)

\* ------------------------------------------------------------ readers
\* A file is a sequence of rows [ID, changed, valid_from, valid_until]; a
\* date column holds the number of a day, or 0 where the file has no value.
\* A frame (DataFrame, FWF view) is the sequence of the numbers of the rows
\* it holds, in its order.
FileDay(k) == <<2018, 1, k>>

START_OF_ALL_TIMES == <<1970, 1, 1>>
END_OF_ALL_TIMES == <<2249, 12, 31>>

NaT == [t |-> "NaT"]
PyBytes(b) == [t |-> "bytes", v |-> b]

\* The outcome of a load or of one of its steps.
Frame(rows) == [status |-> "ok", rows |-> rows]
Failed(exc) == [status |-> exc, rows |-> <<>>]

\* pandas.read_excel: a date cell is a datetime64 value, an empty one NaT.
ExcelCell(k) == IF k = 0 THEN NaT ELSE PyDt(FileDay(k))

\* The eight bytes of a date field in a fixed-width line: the date as
\* "%Y%m%d", or blanks where the file has no value.
FwfField(k) == IF k = 0 THEN [i \in 1..8 |-> SP] ELSE Strftime(FileDay(k))

\* bytes.__le__ and bytes.__lt__: lexicographic order.
BytesLT(a, b) ==
    \/ \E i \in 1..Len(a) : i <= Len(b) /\ a[i] < b[i] /\ \A j \in 1..(i - 1) : a[j] = b[j]
    \/ Len(a) < Len(b) /\ \A j \in 1..Len(a) : a[j] = b[j]

BytesLE(a, b) == a = b \/ BytesLT(a, b)

\* Series <= datetime and Series >= datetime: false for NaT.
CellLE(cell, date) == cell.t = "datetime" /\ DtLE(cell.v, date)
CellGE(cell, date) == cell.t = "datetime" /\ DtLE(date, cell.v)

\* load_file(): every row of the file, in file order.
load_file(file) == [n \in 1..Len(file) |-> n]

\* ExceFileReader.filter_effective_date
filter_effective_date(sp, file, dframe, effective_date) ==
    IF IsNone(sp.EFFECTIVE_DATE_FIELD) THEN dframe
    ELSE SelectSeq(dframe, LAMBDA n :
            CellLE(ExcelCell(file[n][sp.EFFECTIVE_DATE_FIELD.v]), effective_date.v))

\* ExceFileReader._get_cols
get_cols(cols) ==
    IF IsNone(cols) THEN <<PyNone, PyNone>>
    ELSE IF cols.t \in {"list", "tuple"}
    THEN (IF Len(cols.v) = 0 THEN <<PyNone, PyNone>>
          ELSE <<cols.v[1], IF Len(cols.v) > 1 THEN cols.v[2] ELSE PyNone>>)
    ELSE <<cols, PyNone>>

\* ExceFileReader.to_datetime
to_datetime(obj) ==
    IF obj.t \in {"None", "datetime"} THEN obj
    ELSE IF obj.t = "int"
    THEN MkDatetime(obj.v \div 10000, (obj.v \div 100) % 100, obj.v % 100)
    ELSE Raised("ExceFileReaderException")

\* ExceFileReader.to_dtype: dframe.dtypes[field] knows column names only,
\* and a column read from cells that are all empty is no datetime64 column.
to_dtype(file, field, obj) ==
    IF field.t # "str" THEN Raised("KeyError")
    ELSE IF \E n \in 1..Len(file) : file[n][field.v] # 0 THEN to_datetime(obj)
    ELSE Raised("ExceFileReaderException")

\* dframe.loc[:, [col]].fillna(default, inplace=True): .loc with a list of
\* columns gives a new frame, which is filled and dropped; dframe keeps
\* its NaT cells.
LocFillna(dframe, default) == dframe

\* The lower-bound half of filter_period once the default and the bound
\* were converted.
FromFiltered(file, dframe, col, default, from_date) ==
    IF IsRaised(default) THEN Failed(default.v)
    ELSE IF IsRaised(from_date) THEN Failed(from_date.v)
    ELSE Frame(SelectSeq(LocFillna(dframe, default), LAMBDA n :
                  CellLE(ExcelCell(file[n][col.v]), from_date.v)))

\* The upper-bound half of filter_period: always >=.
UntilFiltered(file, dframe, col, default, until_date) ==
    IF IsRaised(default) THEN Failed(default.v)
    ELSE IF IsRaised(until_date) THEN Failed(until_date.v)
    ELSE Frame(SelectSeq(LocFillna(dframe, default), LAMBDA n :
                  CellGE(ExcelCell(file[n][col.v]), until_date.v)))

\* filter_period, if col_start_date and period_from: ...
FilterFrom(file, dframe, col, period_from) ==
    IF IsNone(col) \/ IsNone(period_from) THEN Frame(dframe)
    ELSE FromFiltered(file, dframe, col, to_dtype(file, col, PyDt(START_OF_ALL_TIMES)),
                      to_dtype(file, col, period_from))

\* filter_period, if col_end_date and period_until: ...
FilterUntil(file, r, col, period_until) ==
    IF r.status # "ok" \/ IsNone(col) \/ IsNone(period_until) THEN r
    ELSE UntilFiltered(file, r.rows, col, to_dtype(file, col, PyDt(END_OF_ALL_TIMES)),
                       to_dtype(file, col, period_until))

\* filter_period with the columns _get_cols returned.
FilterPeriodCols(file, dframe, cols, period_from, period_until) ==
    FilterUntil(file, FilterFrom(file, dframe, cols[1], period_from), cols[2], period_until)

\* ExceFileReader.filter_period
filter_period(sp, file, dframe, period_from, period_until) ==
    FilterPeriodCols(file, dframe, get_cols(sp.PERIOD_DATE_FIELDS), period_from, period_until)

\* The orders of the rows of a frame.
Orders(dframe) ==
    {p \in [1..Len(dframe) -> {dframe[i] : i \in 1..Len(dframe)}] :
        \A i, j \in 1..Len(dframe) : i # j => p[i] # p[j]}

\* dframe.sort_values(sort_col): ascending; the default sort is not stable,
\* so rows with equal values come in any order.
sort_values(file, dframe, sort_col) ==
    {p \in Orders(dframe) :
        \A i, j \in 1..Len(p) : i < j => file[p[i]][sort_col] <= file[p[j]][sort_col]}

\* The rows of a frame at the positions keep, in the frame's order.
Take(dframe, keep) ==
    [k \in 1..Cardinality(keep) |->
        dframe[CHOOSE i \in keep : Cardinality({j \in keep : j <= i}) = k]]

\* dframe.groupby(key).head(1): the first row of every key.
groupby_head(file, dframe, key) ==
    Take(dframe, {i \in 1..Len(dframe) :
                    \A j \in 1..(i - 1) : file[dframe[j]][key] # file[dframe[i]][key]})

\* dframe.groupby(key).tail(1): the last row of every key.
groupby_tail(file, dframe, key) ==
    Take(dframe, {i \in 1..Len(dframe) :
                    \A j \in (i + 1)..Len(dframe) : file[dframe[j]][key] # file[dframe[i]][key]})

\* ExceFileReader.filter_tail: the frames it can return.
filter_tail(file, dframe, key, sort_col) ==
    IF IsNone(key) THEN {dframe}
    ELSE IF IsNone(sort_col) THEN {groupby_tail(file, dframe, key.v)}
    ELSE {groupby_tail(file, p, key.v) : p \in sort_values(file, dframe, sort_col.v)}

\* The end of ExceFileReader.filter: filter_tail on what filter_period left.
FilterTail(sp, file, r) ==
    IF r.status # "ok" THEN {r}
    ELSE {Frame(f) : f \in filter_tail(file, r.rows, sp.INDEX_COL, sp.EFFECTIVE_DATE_FIELD)}

\* ExceFileReader.filter: effective date, then period, then tail.
excel_filter(sp, file, dframe, effective_date, period_from, period_until) ==
    FilterTail(sp, file,
        filter_period(sp, file, filter_effective_date(sp, file, dframe, effective_date),
                      period_from, period_until))

\* ExceFileReader.load: the outcomes it can have.
excel_load(sp, file, effective_date, period_from, period_until) ==
    excel_filter(sp, file, load_file(file), effective_date, period_from, period_until)

\* DateFilter(effective_date, period_from, period_until) for an
\* effective_date that is not None.
DateFilter(effective_date, period_from, period_until) ==
    [effective_date |-> to_date(effective_date),
     period_from |-> IF IsNone(period_from) THEN PyNone ELSE to_date(period_from),
     period_until |-> IF IsNone(period_until) THEN PyNone ELSE to_date(period_until)]

\* DateFilter.__init__ when datetime.now() returns now: a None
\* effective_date is replaced by it before the conversion.
DateFilterAt(now, effective_date, period_from, period_until) ==
    DateFilter(IF IsNone(effective_date) THEN now ELSE effective_date,
               period_from, period_until)

\* FWFFileReader.apply_effective_date_filter: the line's bytes against the
\* date rendered as "%Y%m%d".
apply_effective_date_filter(file, data, field, effective_date) ==
    SelectSeq(data, LAMBDA n : BytesLE(FwfField(file[n][field]), Strftime(effective_date.v)))

\* FWFFileReader.period_boundaries_to_bytes; both period fields declare
\* "strftime": "%Y%m%d".
period_boundaries_to_bytes(fields, filter) ==
    <<IF ~IsNone(fields.v.field_from) /\ ~IsNone(filter.period_from)
      THEN PyBytes(Strftime(filter.period_from.v)) ELSE PyNone,
      IF ~IsNone(fields.v.field_to) /\ ~IsNone(filter.period_until)
      THEN PyBytes(Strftime(filter.period_until.v)) ELSE PyNone>>

\* The filter on field_from with < in the place of <=.
FwfFromStrict(file, data, fields, pfrom) ==
    IF ~IsNone(pfrom) /\ ~IsNone(fields.v.field_from)
    THEN SelectSeq(data, LAMBDA n :
            BytesLT(FwfField(file[n][fields.v.field_from.v]), pfrom.v))
    ELSE data

\* apply_period_filter, the filter on field_from.
FwfFrom(file, data, fields, pfrom) ==
    IF ~IsNone(pfrom) /\ ~IsNone(fields.v.field_from)
    THEN SelectSeq(data, LAMBDA n :
            BytesLE(FwfField(file[n][fields.v.field_from.v]), pfrom.v))
    ELSE data

\* apply_period_filter, the filter on field_to.
FwfUntil(file, data, fields, pto) ==
    IF ~IsNone(pto) /\ ~IsNone(fields.v.field_to)
    THEN (IF fields.v.inclusive
          THEN SelectSeq(data, LAMBDA n :
                  BytesLE(pto.v, FwfField(file[n][fields.v.field_to.v])))
          ELSE SelectSeq(data, LAMBDA n :
                  BytesLT(pto.v, FwfField(file[n][fields.v.field_to.v]))))
    ELSE data

\* apply_period_filter with the bounds period_boundaries_to_bytes returned.
PeriodFiltered(file, data, fields, bounds) ==
    FwfUntil(file, FwfFrom(file, data, fields, bounds[1]), fields, bounds[2])

\* FWFFileReader.apply_period_filter
apply_period_filter(file, data, fields, filter) ==
    PeriodFiltered(file, data, fields, period_boundaries_to_bytes(fields, filter))

\* BaseFileReader.load after the effective-date step.
LoadPeriod(sp, file, data, filter) ==
    IF IsNone(sp.PERIOD_DATE_FIELDS) THEN Frame(data)
    ELSE IF sp.PERIOD_DATE_FIELDS.t # "Period" THEN Failed("AssertionError")
    ELSE Frame(apply_period_filter(file, data, sp.PERIOD_DATE_FIELDS, filter))

\* BaseFileReader.load, as FWFFileReader inherits it: load_file, the
\* effective-date filter, the period filter, and nothing after them.
base_load(sp, file, filter) ==
    LoadPeriod(sp, file,
               IF IsNone(sp.EFFECTIVE_DATE_FIELD) THEN load_file(file)
               ELSE apply_effective_date_filter(file, load_file(file),
                                                sp.EFFECTIVE_DATE_FIELD.v, filter.effective_date),
               filter)

\* ------------------------------------------------- registry, reader map
\* A specification object: its class and its instance attributes.
SpecObject(c, i) == [cls |-> c, inst |-> i]

\* spec.is_eligible(file, effective_date) for an object of the registry.
Eligible(spec, file, effective_date) ==
    is_eligible(GetAttr(spec.cls, spec.inst, "ENABLED"),
                GetAttr(spec.cls, spec.inst, "FILE_PATTERN"),
                GetAttr(spec.cls, spec.inst, "DATE_FROM_FILENAME_REGEX"),
                file, effective_date)

\* The result of find_first: the specification at place i of the registry.
Found(i) == [t |-> "spec", v |-> i]

\* One turn of find_first's loop, r being what is_eligible returned or
\* raised for the specification at place i.
RECURSIVE FindFrom(_, _, _, _)
FindStep(reg, i, file, effective_date, r) ==
    IF IsRaised(r) THEN r
    ELSE IF r.v THEN Found(i)
    ELSE FindFrom(reg, i + 1, file, effective_date)

\* find_first from place i on: KeyError after the last specification.
FindFrom(reg, i, file, effective_date) ==
    IF i > Len(reg) THEN Raised("KeyError")
    ELSE FindStep(reg, i, file, effective_date, Eligible(reg[i], file, effective_date))

\* find_first(file, effective_date)
find_first(reg, file, effective_date) == FindFrom(reg, 1, file, effective_date)

\* calendar.monthrange(year, month)[-1]: the days of the month, or
\* IllegalMonthError for a month outside 1..12.
monthrange(year, month) ==
    IF month \in 1..12 THEN PyInt(DaysInMonth(year, month))
    ELSE Raised("IllegalMonthError")

\* The quarter branch of determine_period once date_from is known:
\* month is the month of date_from plus three.
QuarterUntil(date, date_from, month, days) ==
    IF IsRaised(date_from) THEN date_from
    ELSE IF IsRaised(days) THEN days
    ELSE IF IsRaised(MkDatetime(date[1], month, days.v)) THEN MkDatetime(date[1], month, days.v)
    ELSE PyTuple(<<date_from, MkDatetime(date[1], month, days.v)>>)

\* determine_period(date, range_str) for a date at midnight: the pair
\* (date_from, date_until) or the exception raised. int(date.month / 3)
\* is the month divided by three, rounded down.
determine_period(date, range_str) ==
    IF range_str \in {"M", "month"}
    THEN PyTuple(<<MkDatetime(date[1], date[2], 1),
                   MkDatetime(date[1], date[2], DaysInMonth(date[1], date[2]))>>)
    ELSE IF range_str \in {"Q", "quarter"}
    THEN QuarterUntil(date, MkDatetime(date[1], (date[2] \div 3) * 3 + 1, 1),
                      (date[2] \div 3) * 3 + 4,
                      monthrange(date[1], (date[2] \div 3) * 3 + 4))
    ELSE IF range_str \in {"Y", "year"}
    THEN PyTuple(<<MkDatetime(date[1], 1, 1), MkDatetime(date[1], 12, 31)>>)
    ELSE Raised("BaseFileReaderException")

\* A specification object of a registry with the name of the module that
\* defines its class.
ModuleObject(module, c, i) == [cls |-> c, inst |-> i, module |-> module]

\* sorted(rtn, key=lambda x: x.__module__): the orders of the classes in
\* found that ascend by module name. all_subclasses returns a set, so
\* classes of one module come in any order.
all_filespecs(found) ==
    {p \in [1..Cardinality(found) -> found] :
        /\ \A i, j \in 1..Cardinality(found) : i # j => p[i] # p[j]
        /\ \A i, j \in 1..Cardinality(found) :
              i < j => BytesLE(p[i].module, p[j].module)}

\* add(spec): self.registry.append(spec())
registry_add(reg, object) == Append(reg, object)

\* GenericFileReader._map as the class declares it; "None" is the value
\* None.
ReaderMap == [n \in {"excel", "fwf", "csv"} |->
                 CASE n = "excel" -> "ExcelFileReader"
                   [] n = "fwf" -> "FWFFileReader"
                   [] OTHER -> "None"]

\* A loader that replaces only a name that is not registered yet.
AddReaderIfAbsent(map, name, loader) ==
    IF name \in DOMAIN map THEN map
    ELSE [n \in DOMAIN map \cup {name} |-> IF n = name THEN loader ELSE map[n]]

\* add_or_replace_reader(name, reader): self._map[name] = reader
add_or_replace_reader(map, name, loader) ==
    [n \in DOMAIN map \cup {name} |-> IF n = name THEN loader ELSE map[n]]

\* self._map.get(name, None), and the exception when that is None.
reader_by_name(map, name) ==
    IF name \in DOMAIN map /\ map[name] # "None"
    THEN [t |-> "class", v |-> map[name]]
    ELSE Raised("GenericFileReaderException")

\* The distinct names of a list of field descriptors, in the order of
\* their first occurrence: list(fieldSpecByName.keys()).
fieldSpecNames(specs) ==
    SelectSeq([i \in 1..Len(specs) |->
                  IF \E j \in 1..(i - 1) : specs[j] = specs[i] THEN "" ELSE specs[i]],
              LAMBDA n : n # "")

\* [x for x in names if names.count(x) > 1]
CountedTwice(names) ==
    SelectSeq(names, LAMBDA x : Cardinality({i \in 1..Len(names) : names[i] = x}) > 1)

\* file_readers.FileSpecification.__init__ for a FIELDSPECS list of
\* descriptors with these names: the exception raised and the names its
\* message reports.
legacy_init(specs) ==
    IF Len(specs) # Len(fieldSpecNames(specs))
    THEN [exc |-> "FileSpecificationException", names |-> CountedTwice(fieldSpecNames(specs))]
    ELSE [exc |-> "", names |-> <<>>]

\* No reader object.
NoReader == [kind |-> "none"]

\* A reader object that has loaded nothing. kind is "fwf" for
\* file_spec.FWFFileReader, "legacy" for file_readers.FWFFileReader and
\* "generic" for GenericFileReader; reader is the class a generic reader
\* resolved, inner tells whether its self.fd holds a reader; handles[h] is
\* the number of close() calls on the h-th file handle opened, and cur is
\* the handle the reader refers to (self.fwf_db, self.fd), 0 for None.
NewReader(kind, name, class) ==
    [kind |-> kind, name |-> name, reader |-> class, inner |-> FALSE,
     cur |-> 0, handles |-> <<>>]

\* handle.close() on the handle the reader refers to.
CloseCur(r) == [r EXCEPT !.handles[r.cur] = @ + 1]

\* load(): load_file opens the file and keeps the handle in the reader,
\* before any filter runs; a generic reader first makes a new inner reader.
reader_load(r) ==
    [r EXCEPT !.handles = Append(@, 0), !.cur = Len(r.handles) + 1,
              !.inner = (r.kind = "generic")]

\* close() where the class has one: the legacy reader closes its handle
\* and forgets it; the generic reader calls close() on its inner reader,
\* a file_spec.FWFFileReader, which has no such method. The reader it
\* leaves, and the exception raised.
reader_close(r) ==
    IF r.kind = "legacy"
    THEN [reader |-> IF r.cur = 0 THEN r ELSE [CloseCur(r) EXCEPT !.cur = 0], exc |-> ""]
    ELSE IF r.kind = "generic"
    THEN [reader |-> r, exc |-> IF r.inner THEN "AttributeError" ELSE ""]
    ELSE [reader |-> r, exc |-> "AttributeError"]

\* __exit__: FWFFileReader closes self.fwf_db when it is not None and
\* keeps it; the other two call close().
reader_exit(r) ==
    IF r.kind = "fwf"
    THEN [reader |-> IF r.cur = 0 THEN r ELSE CloseCur(r), exc |-> ""]
    ELSE reader_close(r)


\* ------------------------------------------------- the specification object
\* The days of the model, in calendar order.
Days == [d \in 1..MaxDay |-> <<2018, 1, d>>]

\* Two FIELDSPECS lists, as a subclass or a caller writes them.
FS1 == PyList(<<Field("ID", 3), Field("changed", 8)>>)
FS2 == PyList(<<Field("Name", 5)>>)

\* A subclass of FileSpecification: the attributes and the validate_
\* methods it adds, and the FIELDSPECS and FILE_PATTERN it declares.
SubClass(extraAttrs, extraValidators, fieldspecs, pattern) ==
    MkClass(BaseAttrs \cup extraAttrs, BaseAttrs \cup extraValidators,
            [n \in BaseAttrs \cup extraAttrs |->
                CASE n = "FIELDSPECS" -> fieldspecs
                  [] n = "FILE_PATTERN" -> pattern
                  [] n = "READER" -> PyStr("fwf")
                  [] n = "MY_CFG" -> PyStr("me")
                  [] OTHER -> BaseDefaults[n]])

Classes ==
    {SubClass(a, v, IF f THEN FS1 ELSE PyNone, IF p THEN PyStr(DatGlob) ELSE PyNone) :
        a \in SUBSET {"MY_CFG"}, v \in SUBSET {"MY_CFG", "XYZ"},
        f \in BOOLEAN, p \in BOOLEAN}

\* The values a caller assigns to ENABLED: booleans, values that are no
\* pair, and the pairs of a lower and an upper bound in the accepted forms.
EnabledInputs ==
    LET lo == <<PyNone>> \o [i \in 1..MaxDay |-> PyInt(AsInt(Days[i]))]
                         \o [i \in 1..MaxDay |-> PyStr(Dashed(Days[i]))]
        hi == <<PyNone>> \o [i \in 1..MaxDay |-> PyStr(Strftime(Days[i]))]
                         \o [i \in 1..MaxDay |-> PyDt(Days[i])]
    IN <<PyBool(TRUE), PyBool(FALSE), PyInt(20180101), PyStr(Strftime(Days[1])),
         PyList(<<PyNone>>), PyTuple(<<PyNone, PyStr(<<ZERO, ZERO>>)>>),
         PyTuple(<<PyDt(Days[1]), PyDt(Days[2])>>)>>
       \o [k \in 1..(Len(lo) * Len(hi)) |->
              PyList(<<lo[((k - 1) \div Len(hi)) + 1], hi[((k - 1) % Len(hi)) + 1]>>)]

\* The values a caller assigns to each attribute.
Inputs(name) ==
    CASE name = "ENABLED" -> EnabledInputs
      [] name = "FIELDSPECS" -> <<FS1, FS2, PyList(<<>>), PyStr("ID"), PyList(<<PyStr("ID")>>)>>
      [] name = "SKIP_ROWS" -> <<PyNone, PyInt(1), PyBool(TRUE), PyStr("test")>>
      [] name = "PERIOD_DATE_FIELDS" ->
            <<PyNone, PyPeriod(PyStr("valid_from"), PyStr("valid_until"), FALSE, 1),
              PyTuple(<<PyStr("valid_from"), PyStr("valid_until"), PyBool(TRUE)>>),
              PyTuple(<<PyStr("valid_from"), PyStr("valid_until")>>), PyStr("valid_from")>>
      [] OTHER -> <<PyStr("x")>>

\* The dates a caller asks is_active about.
DateInputs == <<PyNone>> \o [i \in 1..MaxDay |-> PyDt(Days[i])]

\* The assignments spec.<name> = value of the model.
Assignments ==
    LET pairs(name) == [i \in DOMAIN Inputs(name) |-> <<name, Inputs(name)[i]>>]
    IN pairs("ENABLED") \o pairs("FIELDSPECS") \o pairs("SKIP_ROWS")
       \o pairs("PERIOD_DATE_FIELDS") \o pairs("UNDECLARED")

VARIABLES
    cls,      \* the class of the specification
    alive,    \* the constructor has returned an object
    inst,     \* the configuration attributes in the object's __dict__
    fields,   \* self.fields, the derived field table
    lastOp,   \* the last call on the specification and how it ended
    source,   \* the reader's configuration and the rows of its file
    loaded,   \* the last load() of a reader and its result
    registry, \* FileSpecRegistry.registry, the list of specification objects
    readers,  \* GenericFileReader._map, reader name -> reader class
    readerObject, \* a reader object and the file handles its loads opened
    peer,     \* a second object of the same class: its __dict__ and fields
    building  \* the place a constructor has reached inside init()

vars == <<cls, alive, inst, fields, lastOp, source, loaded, registry, readers, readerObject,
          peer, building>>

\* No second object, and no constructor at work.
NoPeer == [alive |-> FALSE, inst |-> <<>>, fields |-> [t |-> "None"]]
NotBuilding == [pc |-> "idle", i |-> 0, validated |-> {}, early |-> {}, exc |-> ""]

NoOp ==
    [op |-> "none", name |-> "", norm |-> PyNone, exc |-> "", derived |-> FALSE,
     arg |-> PyNone, ret |-> PyNone]

Idle == [reader |-> "none"]

Init ==
    /\ cls \in Classes
    /\ alive = FALSE
    /\ inst = EmptyInst
    /\ fields = PyNone
    /\ lastOp = NoOp
    /\ source = Idle
    /\ loaded = Idle
    /\ registry = <<>>
    /\ readers = ReaderMap
    /\ readerObject = NoReader
    /\ peer = NoPeer
    /\ building = NotBuilding

\* spec = cls(): __init__ calls init(); an exception leaves no object.
Construct ==
    /\ ~alive
    /\ lastOp.op = "none"
    /\ \E r \in {init(cls, EmptyInst, PyNone)} :
          /\ alive' = (r.exc = "")
          /\ inst' = IF r.exc = "" THEN r.inst ELSE EmptyInst
          /\ fields' = IF r.exc = "" THEN r.fields ELSE PyNone
          /\ lastOp' = [NoOp EXCEPT !.op = "construct", !.exc = r.exc]
    /\ UNCHANGED <<peer, building, cls, source, loaded, registry, readers, readerObject>>

\* spec.<name> = value
SetAttr(name, value) ==
    /\ alive
    /\ \E r \in {py_setattr(cls, inst, fields, name, value)} :
          /\ inst' = r.inst
          /\ fields' = r.fields
          /\ lastOp' = [NoOp EXCEPT !.op = "setattr", !.name = name, !.norm = r.norm,
                                    !.exc = r.exc, !.derived = r.derived]
    /\ UNCHANGED <<peer, building, cls, alive, source, loaded, registry, readers, readerObject>>

\* spec.is_active(effective_date)
IsActive(effective_date) ==
    /\ alive
    /\ lastOp' = [NoOp EXCEPT !.op = "is_active", !.arg = effective_date,
                              !.ret = PyBool(is_active(GetAttr(cls, inst, "ENABLED"), effective_date))]
    /\ UNCHANGED <<peer, building, cls, alive, inst, fields, source, loaded, registry, readers, readerObject>>

Next ==
    \/ Construct
    \/ \E i \in DOMAIN Assignments : SetAttr(Assignments[i][1], Assignments[i][2])
    \/ \E i \in DOMAIN DateInputs : IsActive(DateInputs[i])

Spec == Init /\ [][Next]_vars

\* ------------------------------------------------- readers at work
\* The PERIOD_DATE_FIELDS a specification holds once validated: None or a
\* Period. The last entry is the (from, to) pair of column names that
\* ExceFileReader._get_cols takes apart, on a specification object that is
\* no FileSpecification.
PeriodConfigs ==
    <<PyNone,
      PyPeriod(PyStr("valid_from"), PyStr("valid_until"), FALSE, 1),
      PyPeriod(PyStr("valid_from"), PyStr("valid_until"), TRUE, 2),
      PyPeriod(PyStr("valid_from"), PyNone, FALSE, 3),
      PyPeriod(PyNone, PyStr("valid_until"), FALSE, 4),
      PyTuple(<<PyStr("valid_from"), PyStr("valid_until")>>)>>

\* The period configurations a reader is handed.
PeriodChoices(reader) ==
    IF reader = "excel" THEN DOMAIN PeriodConfigs
    ELSE {k \in DOMAIN PeriodConfigs : PeriodConfigs[k].t # "tuple"}

\* The files of n rows whose columns take their values from the given sets.
Files(n, ids, changed, from, until) ==
    [1..n -> [ID : ids, changed : changed, valid_from : from, valid_until : until]]

FileDates == 0..MaxFileDay

\* A reader for a specification with an effective-date field and an index
\* column, each set or not, and a file of revisions.
EffectiveSource(reader) ==
    \E eff \in BOOLEAN, idx \in BOOLEAN, n \in 0..MaxRows :
    \E file \in Files(n, {1, 2}, FileDates, {0}, {0}) :
        source = [reader |-> reader, scenario |-> "effective", rows |-> file,
                  sp |-> [EFFECTIVE_DATE_FIELD |-> IF eff THEN PyStr("changed") ELSE PyNone,
                          PERIOD_DATE_FIELDS |-> PyNone,
                          INDEX_COL |-> IF idx THEN PyStr("ID") ELSE PyNone]]

\* A reader for a specification with period fields only.
PeriodSource(reader) ==
    \E k \in PeriodChoices(reader), n \in 0..MaxPeriodRows :
    \E file \in Files(n, {1}, {0}, FileDates, FileDates) :
        source = [reader |-> reader, scenario |-> "period", rows |-> file,
                  sp |-> [EFFECTIVE_DATE_FIELD |-> PyNone,
                          PERIOD_DATE_FIELDS |-> PeriodConfigs[k],
                          INDEX_COL |-> PyNone]]

\* A reader for a specification with all three set, and a file with two
\* revisions of one key.
RevisionSource(reader) ==
    \E k \in PeriodChoices(reader) \ {1} :
    \E file \in Files(MaxRows, {1}, FileDates \ {0}, {0}, FileDates) :
        source = [reader |-> reader, scenario |-> "revisions", rows |-> file,
                  sp |-> [EFFECTIVE_DATE_FIELD |-> PyStr("changed"),
                          PERIOD_DATE_FIELDS |-> PeriodConfigs[k],
                          INDEX_COL |-> PyStr("ID")]]

InitLoad ==
    /\ cls = SubClass({}, {}, FS1, PyStr(DatGlob))
    /\ alive = FALSE
    /\ inst = EmptyInst
    /\ fields = PyNone
    /\ lastOp = NoOp
    /\ loaded = Idle
    /\ registry = <<>>
    /\ readers = ReaderMap
    /\ readerObject = NoReader
    /\ peer = NoPeer
    /\ building = NotBuilding
    /\ \E reader \in {"excel", "fwf"} :
          \/ EffectiveSource(reader)
          \/ PeriodSource(reader)
          \/ RevisionSource(reader)

\* The filters a caller asks for: the days e, pf and pu, 0 for a bound
\* that is not given.
Asked(e, pf, pu) ==
    CASE source.scenario = "effective" -> pf = 0 /\ pu = 0
      [] source.scenario = "period" -> e = 1
      [] OTHER -> pf = 0

\* A period bound as callers write it: an int YYYYMMDD, or None.
Bound(k) == IF k = 0 THEN PyNone ELSE PyInt(AsInt(FileDay(k)))

Loaded(reader, e, pf, pu, r) ==
    [reader |-> reader, E |-> e, PF |-> pf, PU |-> pu, status |-> r.status, rows |-> r.rows]

\* ExceFileReader(spec).load(file, effective_date=, period_from=, period_until=)
ExcelLoad(e, pf, pu) ==
    /\ source.reader = "excel"
    /\ loaded.reader = "none"
    /\ Asked(e, pf, pu)
    /\ \E r \in excel_load(source.sp, source.rows, PyDt(FileDay(e)), Bound(pf), Bound(pu)) :
          loaded' = Loaded("excel", e, pf, pu, r)
    /\ UNCHANGED <<peer, building, cls, alive, inst, fields, lastOp, source, registry, readers, readerObject>>

\* FWFFileReader(spec).load(file, DateFilter(effective_date, period_from, period_until))
FWFLoad(e, pf, pu) ==
    /\ source.reader = "fwf"
    /\ loaded.reader = "none"
    /\ Asked(e, pf, pu)
    /\ loaded' = Loaded("fwf", e, pf, pu,
                        base_load(source.sp, source.rows,
                                  DateFilter(PyStr(Dashed(FileDay(e))), Bound(pf), Bound(pu))))
    /\ UNCHANGED <<peer, building, cls, alive, inst, fields, lastOp, source, registry, readers, readerObject>>

NextLoad ==
    \/ \E e \in 1..MaxFileDay, pf \in FileDates, pu \in FileDates : ExcelLoad(e, pf, pu)
    \/ \E e \in 1..MaxFileDay, pf \in FileDates, pu \in FileDates : FWFLoad(e, pf, pu)

SpecLoad == InitLoad /\ [][NextLoad]_vars

\* ------------------------------------------------- to_date
\* The calendar dates and the times of day a caller converts: month ends,
\* a leap day, days no month has, and times with a field out of range.
DateYears == {2018, 2020}
DateMonths == {1, 2, 4, 12}
DateDays == {1, 29, 31}
DateTimes == <<<<0, 0, 0>>, <<12, 30, 59>>, <<23, 59, 60>>, <<24, 0, 0>>>>

\* "YYYYMMDDHHMMSS"
Stamp(day, time) == Strftime(day) \o Digits(time[1], 2) \o Digits(time[2], 2) \o Digits(time[3], 2)

\* The class whose object the caller holds: a complete subclass.
PlainClass == SubClass({}, {}, FS1, PyStr(DatGlob))

InitDate ==
    /\ cls = PlainClass
    /\ alive = FALSE
    /\ inst = EmptyInst
    /\ fields = PyNone
    /\ lastOp = NoOp
    /\ source = Idle
    /\ loaded = Idle
    /\ registry = <<>>
    /\ readers = ReaderMap
    /\ readerObject = NoReader
    /\ peer = NoPeer
    /\ building = NotBuilding

\* to_date(20180131), to_date("20180131"), to_date("2018-01-31")
ToDateForms(day) ==
    /\ lastOp' = [NoOp EXCEPT !.op = "to_date",
                              !.arg = PyTuple(<<PyInt(AsInt(day)), PyStr(Strftime(day)),
                                                PyStr(Dashed(day))>>),
                              !.ret = PyTuple(<<to_date(PyInt(AsInt(day))),
                                                to_date(PyStr(Strftime(day))),
                                                to_date(PyStr(Dashed(day)))>>)]
    /\ UNCHANGED <<peer, building, cls, alive, inst, fields, source, loaded, registry, readers, readerObject>>

\* to_date("20180131123059")
ToDateStamp(day, time) ==
    /\ lastOp' = [NoOp EXCEPT !.op = "to_date", !.arg = PyStr(Stamp(day, time)),
                              !.ret = to_date(PyStr(Stamp(day, time)))]
    /\ UNCHANGED <<peer, building, cls, alive, inst, fields, source, loaded, registry, readers, readerObject>>

\* to_date(x) for a datetime x that an earlier to_date returned.
ToDateAgain ==
    /\ lastOp.op = "to_date"
    /\ \E x \in (IF lastOp.ret.t = "tuple" THEN {lastOp.ret.v[i] : i \in 1..3}
                  ELSE {lastOp.ret}) :
          /\ x.t = "datetime"
          /\ lastOp' = [NoOp EXCEPT !.op = "to_date", !.arg = x, !.ret = to_date(x)]
    /\ UNCHANGED <<peer, building, cls, alive, inst, fields, source, loaded, registry, readers, readerObject>>

\* to_date(None)
ToDateNone ==
    /\ lastOp' = [NoOp EXCEPT !.op = "to_date", !.arg = PyNone, !.ret = to_date(PyNone)]
    /\ UNCHANGED <<peer, building, cls, alive, inst, fields, source, loaded, registry, readers, readerObject>>

\* What datetime.now() can return: a midnight and a time of day.
Clock == {PyDt(<<2018, 1, 29>>), PyDt(<<2018, 1, 29, 12, 30, 59>>)}

\* DateFilter(effective_date, period_from, period_until), each argument
\* given as an int YYYYMMDD or left at None.
NewDateFilter(day, given) ==
    /\ \E now \in Clock :
          lastOp' = [NoOp EXCEPT
                        !.op = "DateFilter", !.arg = PyTuple(given),
                        !.ret = DateFilterAt(now,
                                    IF given[1] THEN PyInt(AsInt(day)) ELSE PyNone,
                                    IF given[2] THEN PyInt(AsInt(day)) ELSE PyNone,
                                    IF given[3] THEN PyInt(AsInt(day)) ELSE PyNone)]
    /\ UNCHANGED <<peer, building, cls, alive, inst, fields, source, loaded, registry, readers, readerObject>>

NextDate ==
    \/ \E y \in DateYears, m \in DateMonths, d \in DateDays : ToDateForms(<<y, m, d>>)
    \/ ToDateNone
    \/ \E y \in DateYears, given \in [1..3 -> BOOLEAN] : NewDateFilter(<<y, 1, 1>>, given)
    \/ \E y \in DateYears, m \in DateMonths, d \in DateDays, t \in DOMAIN DateTimes :
          ToDateStamp(<<y, m, d>>, DateTimes[t])
    \/ ToDateAgain

SpecDate == InitDate /\ [][NextDate]_vars

\* ------------------------------------------------- eligibility calls
\* The FILE_PATTERN, ENABLED and DATE_FROM_FILENAME_REGEX a subclass
\* declares: no pattern, an empty one, one glob, a list of two; enabled,
\* disabled, enabled for a range of days; the default regex or none.
EligPatterns ==
    <<PyNone, PyTuple(<<>>), PyStr(DatGlob), PyList(<<PyStr(TxtGlob), PyStr(DirGlob)>>)>>

EligEnabled ==
    <<PyBool(TRUE), PyBool(FALSE),
      PyList(<<PyInt(AsInt(Days[1])), PyInt(AsInt(Days[MaxDay]))>>)>>

EligClass(pattern, enabled, regex) ==
    MkClass(BaseAttrs, BaseAttrs,
            [n \in BaseAttrs |->
                CASE n = "FIELDSPECS" -> FS1
                  [] n = "FILE_PATTERN" -> pattern
                  [] n = "ENABLED" -> enabled
                  [] n = "DATE_FROM_FILENAME_REGEX" -> regex
                  [] n = "READER" -> PyStr("fwf")
                  [] OTHER -> BaseDefaults[n]])

\* File names: "a.dat", "a.txt", "d/a.dat", "d\x\a.dat", "a.<date>.dat"
\* for a day, for a day and a time, and for nine digits that are no date.
Named(stem, ext) == stem \o <<Ch.dot>> \o ext
Dated(token) == <<Ch.a, Ch.dot>> \o token \o <<Ch.dot, Ch.d, Ch.a, Ch.t>>

FileNames ==
    <<Named(<<Ch.a>>, <<Ch.d, Ch.a, Ch.t>>),
      Named(<<Ch.a>>, <<Ch.t, Ch.x, Ch.t>>),
      Named(<<Ch.d, Ch.slash, Ch.a>>, <<Ch.d, Ch.a, Ch.t>>),
      Named(<<Ch.d, Ch.bslash, Ch.x, Ch.bslash, Ch.a>>, <<Ch.d, Ch.a, Ch.t>>),
      Dated(Stamp(Days[1], <<12, 30, 59>>)),
      Dated(Strftime(Days[1]) \o <<ZERO>>)>>
    \o [i \in 1..MaxDay |-> Dated(Strftime(Days[i]))]

\* The effective dates asked about: None, each day at midnight, and the
\* first day at noon.
EligDates == DateInputs \o <<PyDt(Days[1] \o <<12, 0, 0>>)>>

\* The assignments a caller makes before asking, as test_filepattern does.
EligAssignments ==
    <<<<"FILE_PATTERN", PyList(<<>>)>>,
      <<"FILE_PATTERN", PyStr(DatGlob)>>,
      <<"FILE_PATTERN", PyList(<<PyStr(OpenParen)>>)>>,
      <<"DATE_FROM_FILENAME_REGEX", PyNone>>>>

InitEligible ==
    /\ \E i \in DOMAIN EligPatterns, j \in DOMAIN EligEnabled, r \in BOOLEAN :
          cls = EligClass(EligPatterns[i], EligEnabled[j], IF r THEN DateRegex ELSE PyNone)
    /\ alive = FALSE
    /\ inst = EmptyInst
    /\ fields = PyNone
    /\ lastOp = NoOp
    /\ source = Idle
    /\ loaded = Idle
    /\ registry = <<>>
    /\ readers = ReaderMap
    /\ readerObject = NoReader
    /\ peer = NoPeer
    /\ building = NotBuilding

\* spec.file_filter(file, effective_date)
FileFilter(file, effective_date) ==
    /\ alive
    /\ \E r \in {file_filter(GetAttr(cls, inst, "DATE_FROM_FILENAME_REGEX"),
                               file, effective_date)} :
          lastOp' = [NoOp EXCEPT !.op = "file_filter",
                                 !.arg = PyTuple(<<PyStr(file), effective_date>>),
                                 !.exc = IF IsRaised(r) THEN r.v ELSE "", !.ret = r]
    /\ UNCHANGED <<peer, building, cls, alive, inst, fields, source, loaded, registry, readers, readerObject>>

\* spec.is_eligible(file, effective_date)
IsEligible(file, effective_date) ==
    /\ alive
    /\ \E r \in {is_eligible(GetAttr(cls, inst, "ENABLED"),
                               GetAttr(cls, inst, "FILE_PATTERN"),
                               GetAttr(cls, inst, "DATE_FROM_FILENAME_REGEX"),
                               file, effective_date)} :
          lastOp' = [NoOp EXCEPT !.op = "is_eligible",
                                 !.arg = PyTuple(<<PyStr(file), effective_date>>),
                                 !.exc = IF IsRaised(r) THEN r.v ELSE "", !.ret = r]
    /\ UNCHANGED <<peer, building, cls, alive, inst, fields, source, loaded, registry, readers, readerObject>>

NextEligible ==
    \/ Construct
    \/ \E i \in DOMAIN EligAssignments : SetAttr(EligAssignments[i][1], EligAssignments[i][2])
    \/ \E f \in DOMAIN FileNames, d \in DOMAIN EligDates : FileFilter(FileNames[f], EligDates[d])
    \/ \E f \in DOMAIN FileNames, d \in DOMAIN EligDates : IsEligible(FileNames[f], EligDates[d])

SpecEligible == InitEligible /\ [][NextEligible]_vars

\* ------------------------------------------------- full files
\* The FULL_FILES a subclass declares: none, one glob, a list of one
\* regular expression, a list of one malformed pattern.
FullDeclared ==
    <<PyNone, PyStr(DatGlob), PyList(<<PyStr(ATxt)>>), PyList(<<PyStr(OpenParen)>>)>>

FullClass(full_files) ==
    MkClass(BaseAttrs, BaseAttrs,
            [n \in BaseAttrs |->
                CASE n = "FIELDSPECS" -> FS1
                  [] n = "FILE_PATTERN" -> PyStr(DatGlob)
                  [] n = "FULL_FILES" -> full_files
                  [] n = "DATE_FROM_FILENAME_REGEX" -> PyNone
                  [] n = "READER" -> PyStr("fwf")
                  [] OTHER -> BaseDefaults[n]])

\* The patterns assigned, as test_filepattern and test_is_full do: a
\* string, a list and a tuple, well formed and malformed.
PatternValues ==
    <<PyStr(OpenParen), PyList(<<PyStr(OpenParen)>>), PyTuple(<<PyStr(OpenParen)>>),
      PyStr(DatGlob), PyList(<<PyStr(DatGlob)>>), PyList(<<>>),
      PyList(<<PyStr(ATxt)>>), PyTuple(<<PyStr(ADat), PyStr(ATxt)>>), PyNone>>

PatternNames == {"FILE_PATTERN", "FULL_FILES"}

InitFull ==
    /\ \E i \in DOMAIN FullDeclared : cls = FullClass(FullDeclared[i])
    /\ alive = FALSE
    /\ inst = EmptyInst
    /\ fields = PyNone
    /\ lastOp = NoOp
    /\ source = Idle
    /\ loaded = Idle
    /\ registry = <<>>
    /\ readers = ReaderMap
    /\ readerObject = NoReader
    /\ peer = NoPeer
    /\ building = NotBuilding

\* spec.is_full(file)
IsFull(file) ==
    /\ alive
    /\ \E r \in {is_full(GetAttr(cls, inst, "FULL_FILES"), file)} :
          lastOp' = [NoOp EXCEPT !.op = "is_full", !.arg = PyStr(file),
                                 !.exc = IF IsRaised(r) THEN r.v ELSE "", !.ret = r]
    /\ UNCHANGED <<peer, building, cls, alive, inst, fields, source, loaded, registry, readers, readerObject>>

NextFull ==
    \/ Construct
    \/ \E n \in PatternNames, i \in DOMAIN PatternValues : SetAttr(n, PatternValues[i])
    \/ \E f \in 1..4 : IsFull(FileNames[f])
    \/ \E f \in 1..4 : IsEligible(FileNames[f], PyNone)

SpecFull == InitFull /\ [][NextFull]_vars

\* ------------------------------------------------- legacy specification
\* The names the field descriptors of a legacy specification take.
FieldNames == {"ID", "name", "date"}

\* A subclass of file_readers.FileSpecification declaring descriptors
\* with these names.
LegacyClass(specs) == [legacy |-> TRUE, FIELDSPECS |-> specs]

InitLegacy ==
    /\ \E n \in 0..MaxFields : \E specs \in [1..n -> FieldNames] : cls = LegacyClass(specs)
    /\ alive = FALSE
    /\ inst = EmptyInst
    /\ fields = PyNone
    /\ lastOp = NoOp
    /\ source = Idle
    /\ loaded = Idle
    /\ registry = <<>>
    /\ readers = ReaderMap
    /\ readerObject = NoReader
    /\ peer = NoPeer
    /\ building = NotBuilding

\* spec = cls() for a legacy class.
LegacyConstruct ==
    /\ ~alive
    /\ lastOp.op = "none"
    /\ \E r \in {legacy_init(cls.FIELDSPECS)} :
          /\ alive' = (r.exc = "")
          /\ fields' = IF r.exc = "" THEN PyList(fieldSpecNames(cls.FIELDSPECS)) ELSE PyNone
          /\ lastOp' = [NoOp EXCEPT !.op = "construct", !.exc = r.exc, !.ret = PyList(r.names)]
    /\ UNCHANGED <<peer, building, cls, inst, source, loaded, registry, readers, readerObject>>

NextLegacy == LegacyConstruct

SpecLegacy == InitLegacy /\ [][NextLegacy]_vars

\* ------------------------------------------------- construction in steps
\* The attributes new_filespec() reads.
TableInputs == {"FIELDSPECS", "READER"}

InitSteps ==
    /\ cls \in Classes
    /\ alive = FALSE
    /\ inst = EmptyInst
    /\ fields = PyNone
    /\ lastOp = NoOp
    /\ source = Idle
    /\ loaded = Idle
    /\ registry = <<>>
    /\ readers = ReaderMap
    /\ readerObject = NoReader
    /\ peer = NoPeer
    /\ building = NotBuilding

\* spec = cls(): __init__ enters init().
EnterInit ==
    /\ building.pc = "idle"
    /\ building' = [building EXCEPT !.pc = "new_filespec"]
    /\ UNCHANGED <<cls, alive, inst, fields, lastOp, source, loaded, registry, readers,
                   readerObject, peer>>

\* self.fields = self.new_filespec(): the table is built from FIELDSPECS
\* and READER as they are now; early are those no validator has seen.
DeriveTable ==
    /\ building.pc = "new_filespec"
    /\ \E tab \in {new_filespec(cls, inst)} :
          /\ fields' = IF IsRaised(tab) THEN fields ELSE tab
          /\ building' = [building EXCEPT
                            !.pc = IF IsRaised(tab) THEN "failed" ELSE "validate",
                            !.i = 1,
                            !.early = TableInputs \ building.validated,
                            !.exc = IF IsRaised(tab) THEN tab.v ELSE ""]
    /\ UNCHANGED <<cls, alive, inst, lastOp, source, loaded, registry, readers,
                   readerObject, peer>>

\* self.validate(): the next upper-case name of dir(self).
ValidateNext ==
    /\ building.pc = "validate"
    /\ building.i <= Len(BaseOrder)
    /\ \E r \in {validate_step(cls, inst, building.i,
                                 GetAttr(cls, inst, BaseOrder[building.i]),
                                 Validate(BaseOrder[building.i],
                                          GetAttr(cls, inst, BaseOrder[building.i])))} :
          /\ inst' = r.inst
          /\ building' = [building EXCEPT
                            !.pc = IF r.exc = "" THEN "validate" ELSE "failed",
                            !.i = @ + 1,
                            !.validated = IF r.seen /\ r.exc = ""
                                          THEN @ \cup {BaseOrder[building.i]} ELSE @,
                            !.exc = r.exc]
    /\ UNCHANGED <<cls, alive, fields, lastOp, source, loaded, registry, readers,
                   readerObject, peer>>

\* The validate_ methods, which dir(self) lists last, and the return of
\* the constructor.
LeaveInit ==
    /\ building.pc = "validate"
    /\ building.i > Len(BaseOrder)
    /\ \E r \in {ValidateMethods(cls, [inst |-> inst, exc |-> ""])} :
          /\ alive' = (r.exc = "")
          /\ building' = [building EXCEPT !.pc = IF r.exc = "" THEN "done" ELSE "failed",
                                          !.exc = r.exc]
          /\ lastOp' = [NoOp EXCEPT !.op = "construct", !.exc = r.exc]
    /\ UNCHANGED <<cls, inst, fields, source, loaded, registry, readers, readerObject, peer>>

NextSteps ==
    \/ EnterInit
    \/ DeriveTable
    \/ ValidateNext
    \/ LeaveInit

SpecSteps == InitSteps /\ [][NextSteps]_vars

\* ------------------------------------------------- two objects of a class
\* The assignments made on either object, as test_enabled does.
TwoAssignments ==
    <<<<"ENABLED", PyBool(FALSE)>>, <<"ENABLED", PyBool(TRUE)>>,
      <<"READER", PyNone>>, <<"SKIP_ROWS", PyStr("test")>>,
      <<"FIELDSPECS", FS2>>, <<"FILE_PATTERN", PyStr(TxtGlob)>>>>

InitTwo ==
    /\ cls = PlainClass
    /\ alive = FALSE
    /\ inst = EmptyInst
    /\ fields = PyNone
    /\ lastOp = NoOp
    /\ source = Idle
    /\ loaded = Idle
    /\ registry = <<>>
    /\ readers = ReaderMap
    /\ readerObject = NoReader
    /\ peer = NoPeer
    /\ building = NotBuilding

\* other = cls(): a second object of the class.
ConstructPeer ==
    /\ alive
    /\ ~peer.alive
    /\ \E r \in {init(cls, EmptyInst, PyNone)} :
          /\ peer' = IF r.exc = "" THEN [alive |-> TRUE, inst |-> r.inst, fields |-> r.fields]
                      ELSE peer
          /\ lastOp' = [NoOp EXCEPT !.op = "construct_peer", !.exc = r.exc]
    /\ UNCHANGED <<cls, alive, inst, fields, source, loaded, registry, readers,
                   readerObject, building>>

\* other.<name> = value
SetAttrPeer(name, value) ==
    /\ peer.alive
    /\ \E r \in {py_setattr(cls, peer.inst, peer.fields, name, value)} :
          /\ peer' = [peer EXCEPT !.inst = r.inst, !.fields = r.fields]
          /\ lastOp' = [NoOp EXCEPT !.op = "setattr_peer", !.name = name, !.norm = r.norm,
                                    !.exc = r.exc, !.derived = r.derived]
    /\ UNCHANGED <<cls, alive, inst, fields, source, loaded, registry, readers,
                   readerObject, building>>

NextTwo ==
    \/ Construct
    \/ ConstructPeer
    \/ \E i \in DOMAIN TwoAssignments : SetAttr(TwoAssignments[i][1], TwoAssignments[i][2])
    \/ \E i \in DOMAIN TwoAssignments : SetAttrPeer(TwoAssignments[i][1], TwoAssignments[i][2])

SpecTwo == InitTwo /\ [][NextTwo]_vars

\* ------------------------------------------------- the field table
\* A list whose one descriptor has no name.
FS3 == PyList(<<Field("", 3)>>)

\* Assignments that are accepted, that a validator rejects, that fail
\* when the table is built again, and to names the class does not declare.
TableAssignments ==
    <<<<"FIELDSPECS", FS1>>, <<"FIELDSPECS", FS2>>, <<"FIELDSPECS", PyList(<<>>)>>,
      <<"FIELDSPECS", FS3>>, <<"FIELDSPECS", PyStr("ID")>>,
      <<"ENABLED", PyBool(FALSE)>>, <<"READER", PyNone>>, <<"SKIP_ROWS", PyStr("test")>>,
      <<"UNDECLARED", PyStr("x")>>, <<"MY_CFG", PyStr("x")>>>>

InitTable ==
    /\ cls = PlainClass
    /\ alive = FALSE
    /\ inst = EmptyInst
    /\ fields = PyNone
    /\ lastOp = NoOp
    /\ source = Idle
    /\ loaded = Idle
    /\ registry = <<>>
    /\ readers = ReaderMap
    /\ readerObject = NoReader
    /\ peer = NoPeer
    /\ building = NotBuilding

NextTable ==
    \/ Construct
    \/ \E i \in DOMAIN TableAssignments :
          SetAttr(TableAssignments[i][1], TableAssignments[i][2])

SpecTable == InitTable /\ [][NextTable]_vars

\* ------------------------------------------------- registry calls
\* The classes a caller adds to a registry: enabled and disabled ones for
\* "*.dat", one enabled for a range of days with two patterns, one with
\* the default date regex, and one that declares no FILE_PATTERN.
RegClasses ==
    <<EligClass(PyStr(DatGlob), PyBool(TRUE), PyNone),
      EligClass(PyStr(DatGlob), PyBool(FALSE), PyNone),
      EligClass(EligPatterns[4], EligEnabled[3], PyNone),
      EligClass(PyStr(DatGlob), PyBool(TRUE), DateRegex),
      EligClass(PyNone, PyBool(TRUE), PyNone)>>

\* FileSpecRegistry(None): nothing is imported, the registry is empty.
InitRegistry ==
    /\ cls = PlainClass
    /\ alive = FALSE
    /\ inst = EmptyInst
    /\ fields = PyNone
    /\ lastOp = NoOp
    /\ source = Idle
    /\ loaded = Idle
    /\ registry = <<>>
    /\ readers = ReaderMap
    /\ readerObject = NoReader
    /\ peer = NoPeer
    /\ building = NotBuilding

\* registry.add(c): self.registry.append(c()); the constructor may raise.
RegistryAdd(c) ==
    /\ Len(registry) < MaxSpecs
    /\ \E r \in {init(c, EmptyInst, PyNone)} :
          /\ registry' = IF r.exc = "" THEN Append(registry, SpecObject(c, r.inst))
                          ELSE registry
          /\ lastOp' = [NoOp EXCEPT !.op = "add", !.exc = r.exc]
    /\ UNCHANGED <<peer, building, cls, alive, inst, fields, source, loaded, readers, readerObject>>

\* registry.find_first(file, effective_date)
FindFirst(file, effective_date) ==
    /\ \E r \in {find_first(registry, file, effective_date)} :
          lastOp' = [NoOp EXCEPT !.op = "find_first",
                                 !.arg = PyTuple(<<PyStr(file), effective_date>>),
                                 !.exc = IF IsRaised(r) THEN r.v ELSE "", !.ret = r]
    /\ UNCHANGED <<peer, building, cls, alive, inst, fields, source, loaded, registry, readers, readerObject>>

NextRegistry ==
    \/ \E i \in DOMAIN RegClasses : RegistryAdd(RegClasses[i])
    \/ \E f \in DOMAIN FileNames, d \in DOMAIN EligDates : FindFirst(FileNames[f], EligDates[d])

SpecRegistry == InitRegistry /\ [][NextRegistry]_vars

\* ------------------------------------------------- registry order
\* The specification classes of the modules "a", "d", "d" and "t".
ModuleSpecs ==
    <<[module |-> <<Ch.a>>, cls |-> RegClasses[1]],
      [module |-> <<Ch.d>>, cls |-> RegClasses[2]],
      [module |-> <<Ch.d>>, cls |-> RegClasses[3]],
      [module |-> <<Ch.t>>, cls |-> RegClasses[1]]>>

\* No registry yet.
InitModules ==
    /\ cls = PlainClass
    /\ alive = FALSE
    /\ inst = EmptyInst
    /\ fields = PyNone
    /\ lastOp = NoOp
    /\ source = Idle
    /\ loaded = Idle
    /\ registry = <<>>
    /\ readers = ReaderMap
    /\ readerObject = NoReader
    /\ peer = NoPeer
    /\ building = NotBuilding

\* FileSpecRegistry(directory): the modules of the directory are imported
\* and the registry holds an object of every class found, in the order
\* all_filespecs returns.
NewRegistry(imported) ==
    /\ lastOp.op = "none"
    /\ Cardinality(imported) <= MaxSpecs - 1
    /\ \E order \in all_filespecs({ModuleSpecs[k] : k \in imported}) :
          registry' = [i \in 1..Len(order) |->
                          ModuleObject(order[i].module, order[i].cls,
                                       init(order[i].cls, EmptyInst, PyNone).inst)]
    /\ lastOp' = [NoOp EXCEPT !.op = "registry"]
    /\ UNCHANGED <<peer, building, cls, alive, inst, fields, source, loaded, readers,
                   readerObject>>

\* registry.add(spec) for the class at place k of ModuleSpecs.
AddFromModule(k) ==
    /\ lastOp.op # "none"
    /\ Len(registry) < MaxSpecs
    /\ registry' = registry_add(registry,
                                ModuleObject(ModuleSpecs[k].module, ModuleSpecs[k].cls,
                                             init(ModuleSpecs[k].cls, EmptyInst, PyNone).inst))
    /\ lastOp' = [NoOp EXCEPT !.op = "add"]
    /\ UNCHANGED <<peer, building, cls, alive, inst, fields, source, loaded, readers,
                   readerObject>>

\* registry.find_first(file, effective_date) on a registry that exists.
FindFirstOf(file, effective_date) ==
    /\ lastOp.op # "none"
    /\ FindFirst(file, effective_date)

NextModules ==
    \/ \E imported \in SUBSET DOMAIN ModuleSpecs : NewRegistry(imported)
    \/ \E k \in DOMAIN ModuleSpecs : AddFromModule(k)
    \/ \E f \in 1..2, d \in 1..2 : FindFirstOf(FileNames[f], EligDates[d])

SpecModules == InitModules /\ [][NextModules]_vars

\* ------------------------------------------------- periods
\* The dates and the range strings determine_period is asked about: the
\* first, the fifteenth and the last day of every month of a leap year and
\* of the year before it.
PeriodYears == {2019, 2020}
PeriodDays(y, m) == {1, 15, DaysInMonth(y, m)}
Ranges == {"M", "month", "Q", "quarter", "Y", "year", "W", ""}

InitPeriod ==
    /\ cls = PlainClass
    /\ alive = FALSE
    /\ inst = EmptyInst
    /\ fields = PyNone
    /\ lastOp = NoOp
    /\ source = Idle
    /\ loaded = Idle
    /\ registry = <<>>
    /\ readers = ReaderMap
    /\ readerObject = NoReader
    /\ peer = NoPeer
    /\ building = NotBuilding

\* reader.determine_period(date, range_str)
DeterminePeriod(date, range_str) ==
    /\ \E r \in {determine_period(date, range_str)} :
          lastOp' = [NoOp EXCEPT !.op = "determine_period", !.name = range_str,
                                 !.arg = PyDt(date),
                                 !.exc = IF IsRaised(r) THEN r.v ELSE "", !.ret = r]
    /\ UNCHANGED <<peer, building, cls, alive, inst, fields, source, loaded, registry,
                   readers, readerObject>>

\* reader.determine_period(None, range_str): the date is datetime.today().
DeterminePeriodToday(range_str) ==
    /\ \E y \in PeriodYears, m \in {2, 12} :
          \E r \in {determine_period(<<y, m, 15>>, range_str)} :
              lastOp' = [NoOp EXCEPT !.op = "determine_period_today", !.name = range_str,
                                     !.exc = IF IsRaised(r) THEN r.v ELSE "", !.ret = r]
    /\ UNCHANGED <<peer, building, cls, alive, inst, fields, source, loaded, registry,
                   readers, readerObject>>

NextPeriod ==
    \/ \E y \in PeriodYears, m \in 1..12 : \E d \in PeriodDays(y, m), r \in Ranges :
          DeterminePeriod(<<y, m, d>>, r)
    \/ \E r \in Ranges : DeterminePeriodToday(r)

SpecPeriod == InitPeriod /\ [][NextPeriod]_vars

\* ------------------------------------------------- reader map calls
\* The names asked for and registered, and the loaders registered.
ReaderNames == {"excel", "fwf", "csv", "xml"}
Loaders == {"MyReader", "None"}

InitReaders ==
    /\ cls = PlainClass
    /\ alive = FALSE
    /\ inst = EmptyInst
    /\ fields = PyNone
    /\ lastOp = NoOp
    /\ source = Idle
    /\ loaded = Idle
    /\ registry = <<>>
    /\ readers = ReaderMap
    /\ readerObject = NoReader
    /\ peer = NoPeer
    /\ building = NotBuilding

\* GenericFileReader(filespec) for a filespec whose READER is name: the
\* name is resolved; when that fails there is no new object.
NewGenericReader(name) ==
    /\ \E r \in {reader_by_name(readers, name)} :
          /\ readerObject' = IF IsRaised(r) THEN readerObject
                              ELSE NewReader("generic", name, r.v)
          /\ lastOp' = [NoOp EXCEPT !.op = "resolve", !.name = name, !.ret = r,
                                    !.exc = IF IsRaised(r) THEN r.v ELSE ""]
    /\ UNCHANGED <<peer, building, cls, alive, inst, fields, source, loaded, registry, readers>>

\* reader.add_or_replace_reader(name, loader), a method of a generic
\* reader that writes the map all of them share.
AddOrReplaceReader(name, loader) ==
    /\ readerObject.kind = "generic"
    /\ readers' = add_or_replace_reader(readers, name, loader)
    /\ lastOp' = [NoOp EXCEPT !.op = "add_reader", !.name = name, !.arg = PyStr(loader)]
    /\ UNCHANGED <<peer, building, cls, alive, inst, fields, source, loaded, registry, readerObject>>

NextReaders ==
    \/ \E n \in ReaderNames : NewGenericReader(n)
    \/ \E n \in ReaderNames, l \in Loaders : AddOrReplaceReader(n, l)

SpecReaders == InitReaders /\ [][NextReaders]_vars

\* ------------------------------------------------- reader lifecycle
InitHandles ==
    /\ cls = PlainClass
    /\ alive = FALSE
    /\ inst = EmptyInst
    /\ fields = PyNone
    /\ lastOp = NoOp
    /\ source = Idle
    /\ loaded = Idle
    /\ registry = <<>>
    /\ readers = ReaderMap
    /\ readerObject \in {NewReader("fwf", "fwf", "FWFFileReader"),
                          NewReader("legacy", "fwf", "FWFFileReader"),
                          NewReader("generic", "fwf", ReaderMap["fwf"])}
    /\ peer = NoPeer
    /\ building = NotBuilding

\* reader.load(file, filter): the file is opened, then the filters run and
\* may raise.
ReaderLoad(raises) ==
    /\ Len(readerObject.handles) < MaxLoads
    /\ readerObject' = reader_load(readerObject)
    /\ lastOp' = [NoOp EXCEPT !.op = "load",
                              !.exc = IF raises THEN "FileSpecificationException" ELSE ""]
    /\ UNCHANGED <<peer, building, cls, alive, inst, fields, source, loaded, registry, readers>>

\* reader.close()
ReaderClose ==
    /\ \E r \in {reader_close(readerObject)} :
          /\ readerObject' = r.reader
          /\ lastOp' = [NoOp EXCEPT !.op = "close", !.exc = r.exc]
    /\ UNCHANGED <<peer, building, cls, alive, inst, fields, source, loaded, registry, readers>>

\* The end of a with block: reader.__exit__(...)
ReaderExit ==
    /\ IF readerObject.cur = 0 THEN TRUE
       ELSE readerObject.handles[readerObject.cur] < MaxCloses
    /\ \E r \in {reader_exit(readerObject)} :
          /\ readerObject' = r.reader
          /\ lastOp' = [NoOp EXCEPT !.op = "exit", !.exc = r.exc]
    /\ UNCHANGED <<peer, building, cls, alive, inst, fields, source, loaded, registry, readers>>

NextHandles ==
    \/ \E raises \in BOOLEAN : ReaderLoad(raises)
    \/ ReaderClose
    \/ ReaderExit

SpecHandles == InitHandles /\ [][NextHandles]_vars

\* ------------------------------------------------- properties
\* self.ENABLED of the object.
Enabled == GetAttr(cls, inst, "ENABLED")

\* C1: with ENABLED a range (A, B) and a date d that is not None,
\* is_active(d) is true exactly when A <= d < B, a None bound being no
\* bound: d = A is active, d = B is not, and with A >= B no date is.
C1_IsActiveIffInRange ==
    (lastOp.op = "is_active" /\ lastOp.arg.t = "datetime" /\ Enabled.t = "tuple")
    => (lastOp.ret.v <=> /\ IsNone(Enabled.v[1]) \/ DtLE(Enabled.v[1].v, lastOp.arg.v)
                         /\ IsNone(Enabled.v[2]) \/ DtLT(lastOp.arg.v, Enabled.v[2].v))

\* is_active was asked about the upper bound of a range that is not empty,
\* and answered no.
C1_Witness ==
    /\ lastOp.op = "is_active" /\ lastOp.arg.t = "datetime" /\ Enabled.t = "tuple"
    /\ ~IsNone(Enabled.v[1]) /\ ~IsNone(Enabled.v[2])
    /\ DtLT(Enabled.v[1].v, Enabled.v[2].v)
    /\ lastOp.arg.v = Enabled.v[2].v
    /\ lastOp.ret.v = FALSE

\* Every declared upper-case attribute has its validate_ method and every
\* validate_ method its attribute.
Complete(c) == c.attrs = c.validators

\* C8: constructing a class in which an attribute has no validator, or a
\* validator no attribute, fails with the configuration error
\* (FileSpecificationException), and a construction that succeeds is one
\* of a class where the two sets match.
C8_MismatchIsConfigurationError ==
    lastOp.op = "construct"
    => /\ ~Complete(cls) => lastOp.exc = "FileSpecificationException"
       /\ lastOp.exc = "" => Complete(cls)

\* C9: an assignment whose normalized value equals the value the attribute
\* holds changes no attribute and does not derive the field table again,
\* in every state the object can be in, so also when it is repeated.
C9_SameValueIsNoOp ==
    [][(lastOp'.op = "setattr" /\ PyEq(lastOp'.norm, GetAttr(cls, inst, lastOp'.name)))
       => (inst' = inst /\ fields' = fields /\ ~lastOp'.derived /\ lastOp'.exc = "")]_vars

\* FIELDSPECS was assigned the list it already held: accepted, and init()
\* was not called.
C9_Witness ==
    /\ lastOp.op = "setattr" /\ lastOp.name = "FIELDSPECS"
    /\ lastOp.exc = "" /\ ~lastOp.derived
    /\ lastOp.norm = GetAttr(cls, inst, "FIELDSPECS")

\* C10: an assignment that the validator rejects raises
\* FileSpecificationException and leaves every configuration attribute and
\* the field table as they were.
C10_RejectedLeavesState ==
    [][(lastOp'.op = "setattr" /\ IsRaised(lastOp'.norm))
       => (lastOp'.exc = "FileSpecificationException" /\ inst' = inst /\ fields' = fields)]_vars

\* ENABLED held a range and an assignment to it was rejected.
C10_Witness ==
    /\ lastOp.op = "setattr" /\ lastOp.name = "ENABLED" /\ IsRaised(lastOp.norm)
    /\ lastOp.exc = "FileSpecificationException"
    /\ Enabled.t = "tuple"

\* ------------------------------------------------- properties of a load
\* The rows of the file, by number, and the row a load returned.
RowNumbers == 1..Len(source.rows)
Row(n) == source.rows[n]
InResult(n) == \E i \in 1..Len(loaded.rows) : loaded.rows[i] = n
LoadedOk == loaded.reader # "none" /\ loaded.status = "ok"

\* The specification's three attributes.
EffField == source.sp.EFFECTIVE_DATE_FIELD
PeriodFields == source.sp.PERIOD_DATE_FIELDS
IndexCol == source.sp.INDEX_COL
NamesFrom == PeriodFields.t = "Period" /\ ~IsNone(PeriodFields.v.field_from)
NamesUntil == PeriodFields.t = "Period" /\ ~IsNone(PeriodFields.v.field_to)

\* The row's valid_from is on or before period_from (a day number); a row
\* without a valid_from counts as valid since the start of all time.
StartsBy(n, pf) == Row(n).valid_from = 0 \/ Row(n).valid_from <= pf

\* C2: with period_until given, a row whose field_to is exactly
\* period_until is kept when the Period is inclusive and removed when it is
\* not, and a row with another field_to is kept or removed without regard
\* to the flag (kept when it ends later, removed when it ends earlier), by
\* the Excel reader as by the fixed-width reader.
C2_InclusiveFlagDecidesBoundary ==
    (LoadedOk /\ source.scenario = "period" /\ NamesUntil /\ loaded.PU # 0)
    => \A n \in RowNumbers :
          (Row(n).valid_until # 0 /\ (~NamesFrom \/ loaded.PF = 0 \/ StartsBy(n, loaded.PF)))
          => (InResult(n) <=> \/ Row(n).valid_until > loaded.PU
                              \/ Row(n).valid_until = loaded.PU /\ PeriodFields.v.inclusive)

\* C3: with EFFECTIVE_DATE_FIELD set, the rows kept are exactly those
\* whose value is there and is <= the effective date; with it not set no
\* row is removed.
C3_EffectiveDateStepExact ==
    (LoadedOk /\ source.scenario = "effective" /\ IsNone(IndexCol))
    => \A n \in RowNumbers :
          InResult(n) <=> \/ IsNone(EffField)
                          \/ Row(n).changed # 0 /\ Row(n).changed <= loaded.E

\* The rows that the Excel reader's first two steps leave for its third.
ExcelSurvivors ==
    LET r == filter_period(source.sp, source.rows,
                 filter_effective_date(source.sp, source.rows, load_file(source.rows),
                                       PyDt(FileDay(loaded.E))),
                 Bound(loaded.PF), Bound(loaded.PU))
    IN {r.rows[i] : i \in 1..Len(r.rows)}

\* The places of the result that hold a row of key k.
PlacesOf(k) == {i \in 1..Len(loaded.rows) : Row(loaded.rows[i]).ID = k}

C5_OneRowPerKey ==
    (LoadedOk /\ ~IsNone(IndexCol))
    => \A k \in {1, 2} : Cardinality(PlacesOf(k)) <= 1

\* C6: the fixed-width reader, given period_from and a Period that names
\* field_from, returns only rows that start on or before period_from, and
\* all of them when no upper bound applies; without period_from, without a
\* Period or without field_from, no row is removed for its field_from.
C6_PeriodFromStep ==
    (LoadedOk /\ loaded.reader = "fwf" /\ source.scenario = "period")
    => \A n \in RowNumbers :
          /\ (NamesFrom /\ loaded.PF # 0)
             => /\ InResult(n) => StartsBy(n, loaded.PF)
                /\ (StartsBy(n, loaded.PF) /\ (~NamesUntil \/ loaded.PU = 0)) => InResult(n)
          /\ (~NamesFrom \/ loaded.PF = 0)
             => /\ (~NamesUntil \/ loaded.PU = 0) => InResult(n)
                /\ \A m \in RowNumbers :
                      Row(m).valid_until = Row(n).valid_until => (InResult(m) <=> InResult(n))

\* The fixed-width reader kept a row that starts exactly at period_from.
C6_Witness ==
    /\ LoadedOk /\ loaded.reader = "fwf" /\ source.scenario = "period"
    /\ NamesFrom /\ loaded.PF # 0
    /\ \E n \in RowNumbers : Row(n).valid_from = loaded.PF /\ InResult(n)

\* C7: the Excel reader's period step never removes a row because a
\* period value is missing: a row without valid_from or without
\* valid_until whose other period value lies within the bounds asked for
\* is returned.
C7_MissingPeriodValueKept ==
    (loaded.reader = "excel" /\ source.scenario = "period" /\ ~IsNone(PeriodFields))
    => \A n \in RowNumbers :
          (/\ Row(n).valid_from = 0 \/ Row(n).valid_until = 0
           /\ loaded.PF = 0 \/ StartsBy(n, loaded.PF)
           /\ loaded.PU = 0 \/ Row(n).valid_until = 0 \/ Row(n).valid_until > loaded.PU)
          => InResult(n)

\* The column names a FIELDSPECS list declares, in its order.
ColumnsOf(fieldspecs) == [i \in 1..Len(fieldspecs.v) |-> fieldspecs.v[i].v.name]

\* C11: after an assignment to FIELDSPECS that succeeded and whose value
\* differs from the one held before, the field table (fields, columns) is
\* the table of the assigned list, and FIELDSPECS holds that list.
C11_TableFollowsFieldspecs ==
    [][(/\ lastOp'.op = "setattr" /\ lastOp'.name = "FIELDSPECS" /\ lastOp'.exc = ""
        /\ ~PyEq(lastOp'.norm, GetAttr(cls, inst, "FIELDSPECS")))
       => (/\ fields'.t = "fields"
           /\ fields'.v.columns = ColumnsOf(lastOp'.norm)
           /\ GetAttr(cls, inst', "FIELDSPECS") = lastOp'.norm)]_vars

\* An object built with the columns ID and changed was assigned the list
\* with the one column Name, and its table has that one column.
C11_Witness ==
    /\ lastOp.op = "setattr" /\ lastOp.name = "FIELDSPECS" /\ lastOp.exc = ""
    /\ lastOp.derived
    /\ cls.values["FIELDSPECS"] = FS1
    /\ lastOp.norm = FS2
    /\ fields.v.columns = <<"Name">>

\* The day an int YYYYMMDD names by its decimal places.
DayOfInt(n) == <<(n \div 100) \div 100, (n \div 100) % 100, n % 100>>

\* The six numbers a string of fourteen digits spells.
FieldsOfStamp(s) ==
    <<DigitsVal(s, 1, 4), DigitsVal(s, 5, 6), DigitsVal(s, 7, 8),
      DigitsVal(s, 9, 10), DigitsVal(s, 11, 12), DigitsVal(s, 13, 14)>>

InCalendar(day) == day[2] \in 1..12 /\ day[3] \in 1..DaysInMonth(day[1], day[2])

\* C17: the int YYYYMMDD, the string "YYYYMMDD" and the string
\* "YYYY-MM-DD" of one calendar date convert to the same datetime, that
\* date at midnight; fourteen digits convert to the date and the time of
\* day they spell; and a datetime converts to itself, so converting a
\* result again changes nothing.
C17_ToDateAgreesAndIsIdempotent ==
    /\ (lastOp.op = "to_date" /\ lastOp.arg.t = "tuple"
           /\ InCalendar(DayOfInt(lastOp.arg.v[1].v)))
       => \A i \in 1..3 : /\ lastOp.ret.v[i].t = "datetime"
                          /\ lastOp.ret.v[i].v = DayOfInt(lastOp.arg.v[1].v)
    /\ (lastOp.op = "to_date" /\ lastOp.arg.t = "str"
           /\ InCalendar(FieldsOfStamp(lastOp.arg.v))
           /\ FieldsOfStamp(lastOp.arg.v)[4] <= 23
           /\ FieldsOfStamp(lastOp.arg.v)[5] <= 59
           /\ FieldsOfStamp(lastOp.arg.v)[6] <= 59)
       => /\ lastOp.ret.t = "datetime"
          /\ \A i \in 1..6 : TimePart(lastOp.ret.v, i) = FieldsOfStamp(lastOp.arg.v)[i]
    /\ (lastOp.op = "to_date" /\ lastOp.arg.t = "datetime")
       => lastOp.ret = lastOp.arg

\* Fourteen digits with a time of day were converted, and the result was
\* converted again.
C17_Witness ==
    /\ lastOp.op = "to_date" /\ lastOp.arg.t = "datetime"
    /\ Len(lastOp.arg.v) = 6 /\ lastOp.arg.v[4] = 12
    /\ lastOp.ret = lastOp.arg

\* C18: converting None does not fail: to_date(None) returns a datetime,
\* a DateFilter built without an effective date holds the current time,
\* and a period bound left at None stays None.
C18_NoneConvertsToNowOrDefault ==
    /\ (lastOp.op = "to_date" /\ IsNone(lastOp.arg)) => lastOp.ret.t = "datetime"
    /\ lastOp.op = "DateFilter"
       => /\ ~lastOp.arg.v[1] => lastOp.ret.effective_date \in Clock
          /\ ~lastOp.arg.v[2] => IsNone(lastOp.ret.period_from)
          /\ ~lastOp.arg.v[3] => IsNone(lastOp.ret.period_until)

\* C19: with a boolean ENABLED is_active returns that boolean for every
\* date argument, None included; with a range ENABLED is_active(None) is
\* true whatever the bounds are.
C19_DateIgnoredWhenNotNeeded ==
    lastOp.op = "is_active"
    => /\ Enabled.t = "bool" => lastOp.ret = PyBool(Enabled.v)
       /\ (Enabled.t = "tuple" /\ IsNone(lastOp.arg)) => lastOp.ret = PyBool(TRUE)

\* A disabled specification was asked about no date, and answered no.
C19_Witness ==
    /\ lastOp.op = "is_active" /\ IsNone(lastOp.arg)
    /\ Enabled = PyBool(FALSE)
    /\ lastOp.ret = PyBool(FALSE)

\* The attributes is_eligible reads, and the arguments of the last call.
FilePattern == GetAttr(cls, inst, "FILE_PATTERN")
FilenameRegex == GetAttr(cls, inst, "DATE_FROM_FILENAME_REGEX")
ArgFile == lastOp.arg.v[1].v
ArgDate == lastOp.arg.v[2]

\* The file name matches at least one entry of FILE_PATTERN.
MatchesSomePattern ==
    \/ FilePattern.t = "str" /\ fnmatch(ArgFile, FilePattern.v)
    \/ /\ FilePattern.t = "tuple"
       /\ \E i \in 1..Len(FilePattern.v) : fnmatch(ArgFile, FilePattern.v[i].v)

\* C12: is_eligible(file, d) returns true exactly when is_active(d) is
\* true, the file name matches at least one entry of FILE_PATTERN, and
\* file_filter(file, d) returns true.
C12_EligibleIffAllThree ==
    lastOp.op = "is_eligible"
    => ((lastOp.ret.t = "bool" /\ lastOp.ret.v)
        <=> (/\ is_active(Enabled, ArgDate)
             /\ MatchesSomePattern
             /\ file_filter(FilenameRegex, ArgFile, ArgDate) = PyBool(TRUE)))

\* A specification enabled for a range, with a list of two patterns, was
\* found eligible for a file that only the second pattern matches.
C12_Witness ==
    /\ lastOp.op = "is_eligible" /\ lastOp.ret = PyBool(TRUE)
    /\ Enabled.t = "tuple" /\ ArgDate.t = "datetime"
    /\ FilePattern.t = "tuple" /\ Len(FilePattern.v) = 2
    /\ ~fnmatch(ArgFile, FilePattern.v[1].v)

\* The file name holds a date token the default regex finds.
HasToken(file) == \E i \in 1..Len(file) : TokenAt(file, i)

\* C13: file_filter returns true when no date regex is configured and
\* when the file name holds no date token; when a token is found and it
\* is a date, file_filter returns true exactly when that date is not
\* after d.
C13_FileFilterPasses ==
    (lastOp.op = "file_filter" /\ ~IsNone(ArgDate))
    => /\ IsNone(FilenameRegex) => lastOp.ret = PyBool(TRUE)
       /\ ~HasToken(ArgFile) => lastOp.ret = PyBool(TRUE)
       /\ (~IsNone(FilenameRegex) /\ HasToken(ArgFile)
             /\ ~IsRaised(datetime_from_filename(ArgFile, FilenameRegex)))
          => lastOp.ret = PyBool(DtLE(datetime_from_filename(ArgFile, FilenameRegex).v,
                                      ArgDate.v))

\* C20: a class may leave FILE_PATTERN unset, and a specification whose
\* FILE_PATTERN is None or empty answers false to every is_eligible.
C20_NoPatternNeverEligible ==
    /\ (lastOp.op = "construct" /\ IsNone(cls.values["FILE_PATTERN"]))
       => lastOp.exc = ""
    /\ (lastOp.op = "is_eligible"
           /\ (IsNone(FilePattern) \/ (FilePattern.t = "tuple" /\ FilePattern.v = <<>>)))
       => lastOp.ret = PyBool(FALSE)

\* The places of the registry whose specification is_eligible answers true
\* for the arguments of the last call.
EligiblePlaces ==
    {i \in 1..Len(registry) : Eligible(registry[i], ArgFile, ArgDate) = PyBool(TRUE)}

\* C14: find_first returns the first specification, in the order of the
\* registry, that is eligible for the file and the date, and raises the
\* not-found error (KeyError) exactly when no specification is eligible.
C14_FirstEligibleOrNotFound ==
    lastOp.op = "find_first"
    => IF EligiblePlaces = {} THEN lastOp.ret = Raised("KeyError")
       ELSE /\ lastOp.ret.t = "spec"
            /\ lastOp.ret.v \in EligiblePlaces
            /\ \A i \in EligiblePlaces : lastOp.ret.v <= i

\* C15: resolving a name fails with the unknown-reader error exactly when
\* no loader is registered under it, and add_or_replace_reader(name,
\* loader) makes that name resolve to that loader and leaves every other
\* name as it was.
C15_ResolveAndRegister ==
    /\ [](lastOp.op = "resolve"
           => (IsRaised(lastOp.ret)
               <=> (lastOp.name \notin DOMAIN readers \/ readers[lastOp.name] = "None")))
    /\ [](lastOp.op = "resolve" /\ ~IsRaised(lastOp.ret)
           => lastOp.ret.v = readers[lastOp.name])
    /\ [][lastOp'.op = "add_reader"
           => /\ DOMAIN readers' = DOMAIN readers \cup {lastOp'.name}
              /\ readers'[lastOp'.name] = lastOp'.arg.v
              /\ \A n \in DOMAIN readers \ {lastOp'.name} : readers'[n] = readers[n]]_vars

\* The name fwf was given another loader and then resolved to it, while
\* excel is registered as before.
C15_Witness ==
    /\ lastOp.op = "resolve" /\ lastOp.name = "fwf"
    /\ ~IsRaised(lastOp.ret) /\ lastOp.ret.v = "MyReader"
    /\ readers["excel"] = "ExcelFileReader"

\* C16: no file handle is closed twice, and after close() or the end of a
\* with block every handle a load opened has been closed, also when the
\* filtering of a load raised.
C16_HandlesReleasedOnce ==
    readerObject.kind # "none"
    => /\ \A h \in DOMAIN readerObject.handles : readerObject.handles[h] <= 1
       /\ lastOp.op \in {"close", "exit"}
          => \A h \in DOMAIN readerObject.handles : readerObject.handles[h] = 1

\* A pattern value holds an entry whose translation does not compile.
Malformed(value) ==
    IF value.t = "str" THEN value.v \in BadPatterns
    ELSE IF value.t \in {"list", "tuple"}
    THEN \E i \in 1..Len(value.v) : value.v[i].v \in BadPatterns
    ELSE FALSE

\* C21: an assignment of a malformed pattern to FILE_PATTERN or FULL_FILES,
\* as a string, a list or a tuple, raises the specification error and
\* stores nothing; no malformed pattern is ever held by a specification.
C21_MalformedPatternRejected ==
    /\ [](alive => \A n \in PatternNames : ~Malformed(GetAttr(cls, inst, n)))
    /\ [][\A n \in PatternNames, i \in DOMAIN PatternValues :
            SetAttr(n, PatternValues[i]) /\ Malformed(PatternValues[i])
            => lastOp'.exc = "FileSpecificationException" /\ inst' = inst]_vars

\* C22: is_full is false when FULL_FILES is None or empty; otherwise it is
\* true exactly when some entry matches the name, and it is what
\* is_eligible returns for the same value as FILE_PATTERN on a
\* specification that is enabled and has no date filter.
C22_IsFullMatchesLikeEligible ==
    lastOp.op = "is_full"
    => LET full_files == GetAttr(cls, inst, "FULL_FILES")
           file == lastOp.arg.v
       IN /\ IsNone(full_files) => lastOp.ret = PyBool(FALSE)
          /\ ~IsNone(full_files)
             => /\ full_files.v = <<>> => lastOp.ret = PyBool(FALSE)
                /\ ~Malformed(full_files)
                   => lastOp.ret = PyBool(\E i \in 1..Len(full_files.v) :
                                            fnmatch(file, full_files.v[i].v))
                /\ lastOp.ret = is_eligible(PyBool(TRUE), full_files, PyNone, file, PyNone)

\* is_full was asked about "a.txt" with FULL_FILES ("a*.dat", "a*.txt")
\* and answered true.
C22_Witness ==
    /\ lastOp.op = "is_full" /\ lastOp.ret = PyBool(TRUE)
    /\ lastOp.arg = PyStr(FileNames[2])
    /\ GetAttr(cls, inst, "FULL_FILES") = PyTuple(<<PyStr(ADat), PyStr(ATxt)>>)

\* What a (from, to) or (from, to, inclusive) value is as a Period.
AsPeriod(value) ==
    [field_from |-> value.v[1], field_to |-> value.v[2],
     inclusive |-> IF Len(value.v) = 3 THEN value.v[3].v ELSE FALSE]

\* C23: assigning a tuple or list (from, to) to PERIOD_DATE_FIELDS stores
\* the Period with inclusive = false, (from, to, inclusive) stores the
\* Period with that flag, and a Period instance is stored as it is.
C23_PeriodNormalized ==
    [][\A i \in DOMAIN Inputs("PERIOD_DATE_FIELDS") :
        LET value == Inputs("PERIOD_DATE_FIELDS")[i]
            held == GetAttr(cls, inst', "PERIOD_DATE_FIELDS")
        IN SetAttr("PERIOD_DATE_FIELDS", value)
           => /\ value.t = "Period" => lastOp'.exc = "" /\ held = value
              /\ value.t \in {"tuple", "list"}
                 => /\ lastOp'.exc = ""
                    /\ held.t = "Period"
                    /\ held.v.field_from = AsPeriod(value).field_from
                    /\ held.v.field_to = AsPeriod(value).field_to
                    /\ held.v.inclusive = AsPeriod(value).inclusive]_vars

\* The names that occur more than once among the declared descriptors.
Duplicated(specs) ==
    {specs[i] : i \in {i \in 1..Len(specs) : \E j \in 1..Len(specs) : j # i /\ specs[j] = specs[i]}}

\* C24: constructing a specification whose descriptors hold a name more
\* than once fails, and the error reports the duplicated names.
C24_DuplicateNamesReported ==
    (lastOp.op = "construct" /\ Duplicated(cls.FIELDSPECS) # {})
    => /\ lastOp.exc = "FileSpecificationException"
       /\ {lastOp.ret.v[i] : i \in 1..Len(lastOp.ret.v)} = Duplicated(cls.FIELDSPECS)

\* C26: during construction no configuration value is used before its
\* validator has seen it: when the field table is derived, FIELDSPECS and
\* READER have been validated.
C26_ValidatedBeforeUse ==
    building.pc \in {"validate", "done", "failed"} => building.early = {}

\* The configuration attributes of an object, read as getattr reads them.
Config(c, dict) == [n \in c.attrs |-> GetAttr(c, dict, n)]

\* C25: an assignment on one object changes at most the assigned
\* attribute of that object: the class, the other object and the other
\* attributes of the same object keep their values.
C25_AssignmentIsLocal ==
    [][/\ cls' = cls
       /\ lastOp'.op = "setattr"
          => /\ peer' = peer
             /\ \A n \in cls.attrs \ {lastOp'.name} :
                    Config(cls, inst')[n] = Config(cls, inst)[n]
       /\ lastOp'.op = "setattr_peer"
          => /\ inst' = inst /\ fields' = fields
             /\ \A n \in cls.attrs \ {lastOp'.name} :
                    Config(cls, peer'.inst)[n] = Config(cls, peer.inst)[n]]_vars

\* One object was disabled and given other fields while the other object
\* and the class still hold the declared values.
C25_Witness ==
    /\ alive /\ peer.alive
    /\ lastOp.op = "setattr" /\ lastOp.name = "FIELDSPECS" /\ lastOp.exc = ""
    /\ Config(cls, inst)["ENABLED"] = PyBool(FALSE)
    /\ Config(cls, inst)["FIELDSPECS"] = FS2
    /\ Config(cls, peer.inst)["ENABLED"] = PyBool(TRUE)
    /\ Config(cls, peer.inst)["FIELDSPECS"] = FS1
    /\ cls.values["ENABLED"] = PyBool(TRUE)

\* C27: in every state of a constructed specification the field table is
\* the one derived from the FIELDSPECS it holds, and an assignment to
\* FIELDSPECS that raises leaves FIELDSPECS as it was.
C27_TableMatchesFieldspecs ==
    /\ [](alive => /\ fields.t = "fields"
                   /\ fields.v.columns = ColumnsOf(GetAttr(cls, inst, "FIELDSPECS")))
    /\ [][(lastOp'.op = "setattr" /\ lastOp'.name = "FIELDSPECS" /\ lastOp'.exc # "")
           => GetAttr(cls, inst', "FIELDSPECS") = GetAttr(cls, inst, "FIELDSPECS")]_vars

\* C28: after any construction and any adds, the registry, which is the
\* order find_first goes through, ascends by the name of the module that
\* defines each specification.
C28_RegistrySortedByModule ==
    \A i, j \in 1..Len(registry) :
        i < j => BytesLE(registry[i].module, registry[j].module)

\* The first and the last month of the calendar month, quarter or year
\* that holds month m.
FirstMonth(m, range_str) ==
    IF range_str \in {"M", "month"} THEN m
    ELSE IF range_str \in {"Q", "quarter"} THEN ((m - 1) \div 3) * 3 + 1
    ELSE 1

LastMonth(m, range_str) ==
    IF range_str \in {"M", "month"} THEN m
    ELSE IF range_str \in {"Q", "quarter"} THEN ((m - 1) \div 3) * 3 + 3
    ELSE 12

\* C30: for the ranges month, quarter and year determine_period returns
\* (from, until) with from <= date <= until, from the first and until the
\* last day of the calendar month, quarter or year of the date; it raises
\* only for another range string.
C30_PeriodHoldsDate ==
    lastOp.op = "determine_period"
    => IF lastOp.name \in {"M", "month", "Q", "quarter", "Y", "year"}
       THEN LET date == lastOp.arg.v
                first == FirstMonth(date[2], lastOp.name)
                last == LastMonth(date[2], lastOp.name)
            IN /\ ~IsRaised(lastOp.ret)
               /\ lastOp.ret.v[1] = PyDt(<<date[1], first, 1>>)
               /\ lastOp.ret.v[2] = PyDt(<<date[1], last, DaysInMonth(date[1], last)>>)
               /\ DtLE(lastOp.ret.v[1].v, date) /\ DtLE(date, lastOp.ret.v[2].v)
       ELSE IsRaised(lastOp.ret)

\* The configuration keys of the object: the upper-case names getattr
\* finds.
ConfigKeys == cls.attrs \cup DOMAIN inst

\* C29: an assignment to an upper-case name the class declares neither as
\* an attribute nor with a validate_ method raises and stores nothing, and
\* the configuration keys of a constructed object never change.
C29_UndeclaredNameRejected ==
    /\ [](alive => DOMAIN inst \subseteq cls.attrs)
    /\ [][(lastOp'.op = "setattr" /\ lastOp'.name \notin cls.attrs \cup cls.validators)
           => (lastOp'.exc # "" /\ inst' = inst /\ fields' = fields)]_vars
    /\ [][alive => ConfigKeys' = ConfigKeys]_vars

\* The name UNDECLARED was assigned on a constructed object and the
\* assignment raised.
C29_Witness ==
    /\ alive
    /\ lastOp.op = "setattr" /\ lastOp.name = "UNDECLARED"
    /\ lastOp.exc = "AttributeError"
    /\ "UNDECLARED" \notin DOMAIN inst
====
